---- MODULE Spec2Model ----
(***************************************************************************)
(* token-char: the three source parsers (sources/codex.py,                 *)
(* sources/claude_code.py, sources/cowork.py) as one state machine.  A     *)
(* behaviour is one call of one public entry point: the parser reads its   *)
(* log line by line (one step per line), and at end of input builds the    *)
(* (turns, sessions) lists it returns.                                     *)
(*                                                                         *)
(* Python values: a dict is a record, a list is a sequence, None is the    *)
(* empty sequence and a present optional value x is <<x>>.  A dict that    *)
(* lacks a key is a record that lacks the field.  A path is the sequence   *)
(* of its components.                                                      *)
(***************************************************************************)
EXTENDS Integers, Sequences, FiniteSets, TLC

VARIABLES
    parser,                       \* the entry point that was called
    pc,                           \* position of the call
    log,                          \* the lines read so far; a mark where a
                                  \* further file is opened
    \* ---- codex.py, _parse_session_file locals
    session_id,
    session_cwd,
    latest_total,
    current_model,
    current_turn_total_at_start,
    task_completed_turns,
    has_task_events,
    token_count_snapshots,
    user_msg_count,
    turn_number,
    protocol,                     \* the branch taken at codex.py:232-244
    \* ---- claude_code.py and cowork.py, the per-session accumulators
    turns_user,
    turns_assistant,
    input_tokens,
    output_tokens,
    cache_read_tokens,
    cache_create_tokens,
    session_turns,
    assistant_turn_num,
    \* ---- claude_code.py only
    session_model,
    subagent_turns_count,
    agent_id,
    sub_files,                    \* the subagent files opened so far
    \* ---- cowork.py only
    meta,                         \* the metadata dict of the session being read
    meta_files,                   \* how many metadata files were opened
    raw_sessions,
    skip_first_n,
    lines_read,                   \* lines read so far over all files of the call
    \* ---- the values returned by the entry point
    all_turns,
    all_sessions,
    \* ---- the caller: repeated calls on the same directory, and output.py
    call,                         \* 0: one call; 1: first of two calls; 2: second
    disk,                         \* what the first call read, for the second
    first_result,                 \* what the first call returned
    written,                      \* what the writer put in the output file
    \* ---- codex.py and claude_code.py: the span of the record timestamps
    first_ts,
    last_ts

cxVars == <<session_id, session_cwd, latest_total, current_model,
            current_turn_total_at_start, task_completed_turns, has_task_events,
            token_count_snapshots, user_msg_count, turn_number, protocol>>

accVars == <<turns_user, turns_assistant, input_tokens, output_tokens,
             cache_read_tokens, cache_create_tokens, session_turns,
             assistant_turn_num>>

ccVars == <<session_model, subagent_turns_count, agent_id, sub_files>>

cwVars == <<meta, meta_files, raw_sessions, skip_first_n>>

outVars == <<all_turns, all_sessions>>

runVars == <<call, disk, first_result, written>>

tsVars == <<first_ts, last_ts>>

vars == <<parser, pc, log, lines_read, cxVars, accVars, ccVars, cwVars, outVars,
          runVars, tsVars>>

(***************************************************************************)
(* Bounds of the model.                                                    *)
(***************************************************************************)
MaxLines == 4
MaxRecords == 3
MaxDiskLen == 6

None == <<>>
Some(x) == <<x>>

\* What a step reads from the directory.  A single call (call = 0) just reads
\* it.  Of two calls on the same unchanged directory, the first (call = 1)
\* fixes what is on disk as it reads, and the second (call = 2) finds the same
\* content in the same order.
Feed(c) ==
    /\ CASE call = 0 -> disk' = disk
         [] call = 1 -> Len(disk) < MaxDiskLen /\ disk' = Append(disk, c)
         [] call = 2 -> /\ disk # <<>>
                        /\ Head(disk)[1] = c[1]
                        /\ Head(disk)[2] = c[2]
                        /\ disk' = Tail(disk)
    /\ UNCHANGED <<call, first_result, written>>

(***************************************************************************)
(* Timestamps and durations                                                *)
(***************************************************************************)
\* The text of a timestamp field: an ISO 8601 string naming the second sec, or
\* a string that is no timestamp (the empty string included).
IsoText(sec) == [text |-> "iso", sec |-> sec]

NoTimestamp == [text |-> "bad", sec |-> 0]

\* parse_timestamp: the instant in UTC, or None (_common.py:8-17).
parse_timestamp(ts_str) ==
    IF ts_str.text = "iso" THEN Some(ts_str.sec) ELSE None

\* The record rec with the timestamp field ts_str.
Stamped(rec, ts_str) ==
    [k \in DOMAIN rec \cup {"timestamp"} |->
        IF k = "timestamp" THEN ts_str ELSE rec[k]]

\* rec.get("timestamp", "") is parsed; a timestamp that parses becomes last_ts,
\* and first_ts when there is none yet (codex.py:129-135,
\* claude_code.py:92-98, 188-193).
Stamp(rec) ==
    LET ts_str == IF "timestamp" \in DOMAIN rec THEN rec.timestamp
                  ELSE NoTimestamp
        ts_iso == parse_timestamp(ts_str)
    IN  IF ts_iso # None
        THEN /\ first_ts' = IF first_ts = None THEN ts_iso ELSE first_ts
             /\ last_ts' = ts_iso
        ELSE UNCHANGED tsVars

\* a / b rounded to the nearest integer, b > 0.  A tie goes to the even
\* neighbour here; Python rounds the binary float, and the times of this model
\* are chosen so that no tie arises.
RoundDiv(a, b) ==
    LET q == a \div b
        r == a % b
    IN  IF 2 * r < b THEN q
        ELSE IF 2 * r > b THEN q + 1
        ELSE IF q % 2 = 0 THEN q ELSE q + 1

\* duration_min of a cli-a or cli-b session, in tenths of a minute
\* (codex.py:337-348, claude_code.py:241-252): the span in minutes when it is
\* positive, rounded to one decimal.
DurationOfSpan(first, last) ==
    IF first # None /\ last # None
    THEN LET delta_sec == last[1] - first[1]
         IN  IF delta_sec > 0 THEN Some(RoundDiv(delta_sec, 6)) ELSE None
    ELSE None

\* A metadata value that Python takes for true: present and not 0.
Truthy(ms) == ms # None /\ ms[1] # 0

\* duration_min of a desktop session, in tenths of a minute (cowork.py:154-158).
DurationOfMeta(created_at_ms, last_activity_ms) ==
    IF Truthy(created_at_ms) /\ Truthy(last_activity_ms)
    THEN Some(RoundDiv(last_activity_ms[1] - created_at_ms[1], 6000))
    ELSE None

Max(a, b) == IF a >= b THEN a ELSE b

RECURSIVE SumOver(_, _)
SumOver(s, f) == IF s = <<>> THEN 0 ELSE s[1][f] + SumOver(Tail(s), f)

(***************************************************************************)
(* _common.py: model_family.  A model name is a string; Spelling gives the  *)
(* characters of the names the logs of the model carry.                    *)
(***************************************************************************)
Spelling(name) ==
    CASE name = "gpt-5" -> <<"g", "p", "t", "-", "5">>
      [] name = "GPT-5" -> <<"G", "P", "T", "-", "5">>
      [] name = "o3" -> <<"o", "3">>
      [] name = "claude-opus" ->
             <<"c", "l", "a", "u", "d", "e", "-", "o", "p", "u", "s">>
      [] name = "Claude-Sonnet" ->
             <<"C", "l", "a", "u", "d", "e", "-", "S", "o", "n", "n", "e", "t">>
      [] name = "<synthetic>" ->
             <<"<", "s", "y", "n", "t", "h", "e", "t", "i", "c", ">">>
      [] OTHER -> <<>>

UpperLetters == <<"A", "B", "C", "D", "E", "F", "G", "H", "I", "J", "K", "L", "M",
                  "N", "O", "P", "Q", "R", "S", "T", "U", "V", "W", "X", "Y", "Z">>

LowerLetters == <<"a", "b", "c", "d", "e", "f", "g", "h", "i", "j", "k", "l", "m",
                  "n", "o", "p", "q", "r", "s", "t", "u", "v", "w", "x", "y", "z">>

\* str.lower()
Lower(cs) ==
    [i \in 1..Len(cs) |->
        IF \E k \in 1..Len(UpperLetters) : UpperLetters[k] = cs[i]
        THEN LowerLetters[CHOOSE k \in 1..Len(UpperLetters) :
                              UpperLetters[k] = cs[i]]
        ELSE cs[i]]

\* w in cs
Contains(cs, w) ==
    \E i \in 1..(Len(cs) - Len(w) + 1) : SubSeq(cs, i, i + Len(w) - 1) = w

\* model_family, _common.py:20-31.
ModelFamily(model_name) ==
    IF model_name = "" THEN "unknown"
    ELSE LET m == Lower(Spelling(model_name))
         IN  IF Contains(m, <<"h", "a", "i", "k", "u">>) THEN "haiku"
             ELSE IF Contains(m, <<"s", "o", "n", "n", "e", "t">>) THEN "sonnet"
             ELSE IF Contains(m, <<"o", "p", "u", "s">>) THEN "opus"
             ELSE "unknown"

(***************************************************************************)
(* codex.py                                                                *)
(***************************************************************************)
TotalKeys == {"input_tokens", "cached_input_tokens", "output_tokens",
              "reasoning_output_tokens"}

zero_total == [input_tokens |-> 0, cached_input_tokens |-> 0,
               output_tokens |-> 0, reasoning_output_tokens |-> 0]

\* Mutant: the cumulative total is taken as the delta, nothing subtracted.
DeltaOfMinuend(a, b) == [k \in TotalKeys |-> a[k]]

\* {k: a[k] - b.get(k, 0) for k in a}
DeltaOf(a, b) == [k \in TotalKeys |-> a[k] - b[k]]

\* Mutant: reasoning tokens are added into the turn total.
DecomposeDeltaAddsReasoning(delta) ==
    LET our_input == Max(delta.input_tokens - delta.cached_input_tokens, 0)
    IN  [inp |-> our_input, out |-> delta.output_tokens,
         cr |-> delta.cached_input_tokens,
         reason |-> delta.reasoning_output_tokens,
         total |-> our_input + delta.output_tokens + delta.cached_input_tokens
                       + delta.reasoning_output_tokens]

\* Mutant: the cached sub-count is left inside input_tokens.
DecomposeDeltaKeepsCachedInInput(delta) ==
    [inp |-> delta.input_tokens, out |-> delta.output_tokens,
     cr |-> delta.cached_input_tokens,
     reason |-> delta.reasoning_output_tokens,
     total |-> delta.input_tokens + delta.output_tokens
                   + delta.cached_input_tokens]

\* Mutant: the decomposed input is not clamped at 0.
DecomposeDeltaNoClamp(delta) ==
    LET our_input == delta.input_tokens - delta.cached_input_tokens
    IN  [inp |-> our_input, out |-> delta.output_tokens,
         cr |-> delta.cached_input_tokens,
         reason |-> delta.reasoning_output_tokens,
         total |-> our_input + delta.output_tokens + delta.cached_input_tokens]

DecomposeDelta(delta) ==
    LET codex_input == delta.input_tokens
        codex_cached == delta.cached_input_tokens
        our_input == Max(codex_input - codex_cached, 0)
        our_output == delta.output_tokens
        our_cache_read == codex_cached
        our_reasoning == delta.reasoning_output_tokens
        our_total == our_input + our_output + our_cache_read
    IN  [inp |-> our_input, out |-> our_output, cr |-> our_cache_read,
         reason |-> our_reasoning, total |-> our_total]

ProjectFromCwd(cwd) == IF cwd = <<>> THEN "(unknown)" ELSE cwd[Len(cwd)]

\* The turn dict built at codex.py:203-220, 276-293 and 306-323.
CodexTurn(sid, cwd, n, mdl, d) ==
    [source |-> "codex",
     project |-> ProjectFromCwd(cwd),
     session_id |-> sid,
     turn_number |-> n,
     model |-> mdl,
     model_family |-> ModelFamily(mdl),
     input_tokens |-> d.inp,
     output_tokens |-> d.out,
     cache_read_tokens |-> d.cr,
     cache_create_tokens |-> 0,
     reasoning_output_tokens |-> d.reason,
     total_tokens |-> d.total,
     is_subagent |-> FALSE,
     subagent_id |-> None]

\* The lines of a rollout file.  A line of shape "object" is a JSON object
\* with a type; an event_msg carries payload.type in evt.  A token_count
\* carries payload.info.total_token_usage in total (None: info is null or
\* absent).  The other shapes: "blank" (nothing is left after strip()),
\* "not_json" (json.loads fails), "not_object"
\* (valid JSON that is no object, e.g. [1]) and "null_payload" (an object of
\* the given type whose payload is null).
EvSessionMeta(id, cwd) ==
    [shape |-> "object", type |-> "session_meta", evt |-> "", total |-> None,
     id |-> id, cwd |-> cwd, model |-> ""]
EvTurnContext(mdl) ==
    [shape |-> "object", type |-> "turn_context", evt |-> "", total |-> None,
     id |-> "", cwd |-> <<>>, model |-> mdl]
EvMsg(evt, total) ==
    [shape |-> "object", type |-> "event_msg", evt |-> evt, total |-> total,
     id |-> "", cwd |-> <<>>, model |-> ""]
EvMalformed(shape, type) ==
    [shape |-> shape, type |-> type, evt |-> "", total |-> None,
     id |-> "", cwd |-> <<>>, model |-> ""]
EvTaskStarted == EvMsg("task_started", None)
EvTaskComplete == EvMsg("task_complete", None)
EvUserMessage == EvMsg("user_message", None)
EvTokenCount(t) == EvMsg("token_count", Some(t))
EvTokenCountNoInfo == EvMsg("token_count", None)

\* The line makes the loop raise an exception that nothing catches: rec.get on
\* a value that is no dict (codex.py:128), payload.get on a null payload
\* (codex.py:139-153).  json.JSONDecodeError is caught (codex.py:125-126).
CxRaises(ev) ==
    \/ ev.shape = "not_object"
    \/ /\ ev.shape = "null_payload"
       /\ ev.type \in {"session_meta", "turn_context", "event_msg"}

\* Mutant: the first token_count of a file is compared with nothing, so it records
\* no snapshot.
CxLineSkipsFirstSnapshot(ev) ==
    /\ parser = "codex"
    /\ pc = "reading"
    /\ Feed(<<"CxLine", ev>>)
    /\ IF ev.shape \in {"blank", "not_json", "not_object"} THEN UNCHANGED tsVars
       ELSE Stamp(ev)
    /\ log' = Append(log, ev)
    /\ pc' = IF CxRaises(ev) THEN "raised" ELSE pc
    /\ IF ev.shape # "object" THEN
            UNCHANGED <<session_id, session_cwd, latest_total, current_model,
                        current_turn_total_at_start, task_completed_turns,
                        has_task_events, token_count_snapshots, user_msg_count,
                        turn_number>>
       ELSE IF ev.type = "session_meta" THEN
            /\ session_id' = ev.id
            /\ session_cwd' = ev.cwd
            /\ UNCHANGED <<latest_total, current_model,
                           current_turn_total_at_start, task_completed_turns,
                           has_task_events, token_count_snapshots,
                           user_msg_count, turn_number>>
       ELSE IF ev.type = "turn_context" THEN
            /\ current_model' = IF ev.model # "" THEN ev.model ELSE current_model
            /\ UNCHANGED <<session_id, session_cwd, latest_total,
                           current_turn_total_at_start, task_completed_turns,
                           has_task_events, token_count_snapshots,
                           user_msg_count, turn_number>>
       ELSE IF ev.type = "event_msg" /\ ev.evt = "task_started" THEN
            /\ has_task_events' = TRUE
            /\ current_turn_total_at_start' =
                   IF latest_total # None THEN latest_total ELSE Some(zero_total)
            /\ UNCHANGED <<session_id, session_cwd, latest_total, current_model,
                           task_completed_turns, token_count_snapshots,
                           user_msg_count, turn_number>>
       ELSE IF ev.type = "event_msg" /\ ev.evt = "user_message" THEN
            /\ user_msg_count' = user_msg_count + 1
            /\ UNCHANGED <<session_id, session_cwd, latest_total, current_model,
                           current_turn_total_at_start, task_completed_turns,
                           has_task_events, token_count_snapshots, turn_number>>
       ELSE IF ev.type = "event_msg" /\ ev.evt = "token_count" THEN
            /\ IF ev.total # None THEN
                    LET new_total == ev.total[1]
                        prev == IF latest_total # None THEN latest_total[1]
                                ELSE zero_total
                    IN  /\ token_count_snapshots' =
                               IF latest_total # None
                                  /\ \E k \in TotalKeys : new_total[k] # prev[k]
                               THEN Append(token_count_snapshots,
                                           [total |-> new_total,
                                            model |-> current_model])
                               ELSE token_count_snapshots
                        /\ latest_total' = Some(new_total)
               ELSE UNCHANGED <<token_count_snapshots, latest_total>>
            /\ UNCHANGED <<session_id, session_cwd, current_model,
                           current_turn_total_at_start, task_completed_turns,
                           has_task_events, user_msg_count, turn_number>>
       ELSE IF ev.type = "event_msg" /\ ev.evt = "task_complete" THEN
            /\ has_task_events' = TRUE
            /\ IF current_turn_total_at_start # None /\ latest_total # None THEN
                    LET delta == DeltaOf(latest_total[1],
                                         current_turn_total_at_start[1])
                    IN  /\ turn_number' = turn_number + 1
                        /\ task_completed_turns' =
                               Append(task_completed_turns,
                                      CodexTurn(session_id, session_cwd,
                                                turn_number + 1, current_model,
                                                DecomposeDelta(delta)))
               ELSE UNCHANGED <<turn_number, task_completed_turns>>
            /\ current_turn_total_at_start' = None
            /\ UNCHANGED <<session_id, session_cwd, latest_total, current_model,
                           token_count_snapshots, user_msg_count>>
       ELSE UNCHANGED <<session_id, session_cwd, latest_total, current_model,
                        current_turn_total_at_start, task_completed_turns,
                        has_task_events, token_count_snapshots, user_msg_count,
                        turn_number>>
    /\ lines_read' = lines_read + 1
    /\ UNCHANGED <<parser, protocol, accVars, ccVars, cwVars, outVars>>

\* Mutant: task_complete does not clear the snapshot taken at task_started.
CxLineKeepsStartSnapshot(ev) ==
    /\ parser = "codex"
    /\ pc = "reading"
    /\ Feed(<<"CxLine", ev>>)
    /\ IF ev.shape \in {"blank", "not_json", "not_object"} THEN UNCHANGED tsVars
       ELSE Stamp(ev)
    /\ log' = Append(log, ev)
    /\ pc' = IF CxRaises(ev) THEN "raised" ELSE pc
    /\ IF ev.shape # "object" THEN
            UNCHANGED <<session_id, session_cwd, latest_total, current_model,
                        current_turn_total_at_start, task_completed_turns,
                        has_task_events, token_count_snapshots, user_msg_count,
                        turn_number>>
       ELSE IF ev.type = "session_meta" THEN
            /\ session_id' = ev.id
            /\ session_cwd' = ev.cwd
            /\ UNCHANGED <<latest_total, current_model,
                           current_turn_total_at_start, task_completed_turns,
                           has_task_events, token_count_snapshots,
                           user_msg_count, turn_number>>
       ELSE IF ev.type = "turn_context" THEN
            /\ current_model' = IF ev.model # "" THEN ev.model ELSE current_model
            /\ UNCHANGED <<session_id, session_cwd, latest_total,
                           current_turn_total_at_start, task_completed_turns,
                           has_task_events, token_count_snapshots,
                           user_msg_count, turn_number>>
       ELSE IF ev.type = "event_msg" /\ ev.evt = "task_started" THEN
            /\ has_task_events' = TRUE
            /\ current_turn_total_at_start' =
                   IF latest_total # None THEN latest_total ELSE Some(zero_total)
            /\ UNCHANGED <<session_id, session_cwd, latest_total, current_model,
                           task_completed_turns, token_count_snapshots,
                           user_msg_count, turn_number>>
       ELSE IF ev.type = "event_msg" /\ ev.evt = "user_message" THEN
            /\ user_msg_count' = user_msg_count + 1
            /\ UNCHANGED <<session_id, session_cwd, latest_total, current_model,
                           current_turn_total_at_start, task_completed_turns,
                           has_task_events, token_count_snapshots, turn_number>>
       ELSE IF ev.type = "event_msg" /\ ev.evt = "token_count" THEN
            /\ IF ev.total # None THEN
                    LET new_total == ev.total[1]
                        prev == IF latest_total # None THEN latest_total[1]
                                ELSE zero_total
                    IN  /\ token_count_snapshots' =
                               IF \E k \in TotalKeys : new_total[k] # prev[k]
                               THEN Append(token_count_snapshots,
                                           [total |-> new_total,
                                            model |-> current_model])
                               ELSE token_count_snapshots
                        /\ latest_total' = Some(new_total)
               ELSE UNCHANGED <<token_count_snapshots, latest_total>>
            /\ UNCHANGED <<session_id, session_cwd, current_model,
                           current_turn_total_at_start, task_completed_turns,
                           has_task_events, user_msg_count, turn_number>>
       ELSE IF ev.type = "event_msg" /\ ev.evt = "task_complete" THEN
            /\ has_task_events' = TRUE
            /\ IF current_turn_total_at_start # None /\ latest_total # None THEN
                    LET delta == DeltaOf(latest_total[1],
                                         current_turn_total_at_start[1])
                    IN  /\ turn_number' = turn_number + 1
                        /\ task_completed_turns' =
                               Append(task_completed_turns,
                                      CodexTurn(session_id, session_cwd,
                                                turn_number + 1, current_model,
                                                DecomposeDelta(delta)))
               ELSE UNCHANGED <<turn_number, task_completed_turns>>
            /\ UNCHANGED <<session_id, session_cwd, latest_total, current_model,
                           current_turn_total_at_start, token_count_snapshots,
                           user_msg_count>>
       ELSE UNCHANGED <<session_id, session_cwd, latest_total, current_model,
                        current_turn_total_at_start, task_completed_turns,
                        has_task_events, token_count_snapshots, user_msg_count,
                        turn_number>>
    /\ lines_read' = lines_read + 1
    /\ UNCHANGED <<parser, protocol, accVars, ccVars, cwVars, outVars>>

\* One iteration of the loop at codex.py:119-223 on the line ev.
CxLine(ev) ==
    /\ parser = "codex"
    /\ pc = "reading"
    /\ Feed(<<"CxLine", ev>>)
    /\ IF ev.shape \in {"blank", "not_json", "not_object"} THEN UNCHANGED tsVars
       ELSE Stamp(ev)
    /\ log' = Append(log, ev)
    /\ pc' = IF CxRaises(ev) THEN "raised" ELSE pc
    /\ IF ev.shape # "object" THEN
            UNCHANGED <<session_id, session_cwd, latest_total, current_model,
                        current_turn_total_at_start, task_completed_turns,
                        has_task_events, token_count_snapshots, user_msg_count,
                        turn_number>>
       ELSE IF ev.type = "session_meta" THEN
            /\ session_id' = ev.id
            /\ session_cwd' = ev.cwd
            /\ UNCHANGED <<latest_total, current_model,
                           current_turn_total_at_start, task_completed_turns,
                           has_task_events, token_count_snapshots,
                           user_msg_count, turn_number>>
       ELSE IF ev.type = "turn_context" THEN
            /\ current_model' = IF ev.model # "" THEN ev.model ELSE current_model
            /\ UNCHANGED <<session_id, session_cwd, latest_total,
                           current_turn_total_at_start, task_completed_turns,
                           has_task_events, token_count_snapshots,
                           user_msg_count, turn_number>>
       ELSE IF ev.type = "event_msg" /\ ev.evt = "task_started" THEN
            /\ has_task_events' = TRUE
            /\ current_turn_total_at_start' =
                   IF latest_total # None THEN latest_total ELSE Some(zero_total)
            /\ UNCHANGED <<session_id, session_cwd, latest_total, current_model,
                           task_completed_turns, token_count_snapshots,
                           user_msg_count, turn_number>>
       ELSE IF ev.type = "event_msg" /\ ev.evt = "user_message" THEN
            /\ user_msg_count' = user_msg_count + 1
            /\ UNCHANGED <<session_id, session_cwd, latest_total, current_model,
                           current_turn_total_at_start, task_completed_turns,
                           has_task_events, token_count_snapshots, turn_number>>
       ELSE IF ev.type = "event_msg" /\ ev.evt = "token_count" THEN
            /\ IF ev.total # None THEN
                    LET new_total == ev.total[1]
                        prev == IF latest_total # None THEN latest_total[1]
                                ELSE zero_total
                    IN  /\ token_count_snapshots' =
                               IF \E k \in TotalKeys : new_total[k] # prev[k]
                               THEN Append(token_count_snapshots,
                                           [total |-> new_total,
                                            model |-> current_model])
                               ELSE token_count_snapshots
                        /\ latest_total' = Some(new_total)
               ELSE UNCHANGED <<token_count_snapshots, latest_total>>
            /\ UNCHANGED <<session_id, session_cwd, current_model,
                           current_turn_total_at_start, task_completed_turns,
                           has_task_events, user_msg_count, turn_number>>
       ELSE IF ev.type = "event_msg" /\ ev.evt = "task_complete" THEN
            /\ has_task_events' = TRUE
            /\ IF current_turn_total_at_start # None /\ latest_total # None THEN
                    LET delta == DeltaOf(latest_total[1],
                                         current_turn_total_at_start[1])
                    IN  /\ turn_number' = turn_number + 1
                        /\ task_completed_turns' =
                               Append(task_completed_turns,
                                      CodexTurn(session_id, session_cwd,
                                                turn_number + 1, current_model,
                                                DecomposeDelta(delta)))
               ELSE UNCHANGED <<turn_number, task_completed_turns>>
            /\ current_turn_total_at_start' = None
            /\ UNCHANGED <<session_id, session_cwd, latest_total, current_model,
                           token_count_snapshots, user_msg_count>>
       ELSE UNCHANGED <<session_id, session_cwd, latest_total, current_model,
                        current_turn_total_at_start, task_completed_turns,
                        has_task_events, token_count_snapshots, user_msg_count,
                        turn_number>>
    /\ lines_read' = lines_read + 1
    /\ UNCHANGED <<parser, protocol, accVars, ccVars, cwVars, outVars>>

\* Mutant: a skipped snapshot does not become the previous total.
RECURSIVE DeltaTurnsStalePrev(_, _, _, _, _)
DeltaTurnsStalePrev(snapshots, prev, turns, sid, cwd) ==
    IF snapshots = <<>> THEN turns
    ELSE LET cumulative == snapshots[1].total
             delta == DeltaOf(cumulative, prev)
         IN  IF \A k \in TotalKeys : delta[k] <= 0
             THEN DeltaTurnsStalePrev(Tail(snapshots), prev, turns, sid, cwd)
             ELSE DeltaTurnsStalePrev(
                      Tail(snapshots), cumulative,
                      Append(turns,
                             CodexTurn(sid, cwd, Len(turns) + 1,
                                       snapshots[1].model, DecomposeDelta(delta))),
                      sid, cwd)

\* _turns_from_token_count_deltas: turns is the list built so far, prev the
\* previous cumulative total.
RECURSIVE DeltaTurns(_, _, _, _, _)
DeltaTurns(snapshots, prev, turns, sid, cwd) ==
    IF snapshots = <<>> THEN turns
    ELSE LET cumulative == snapshots[1].total
             mdl == snapshots[1].model
             delta == DeltaOf(cumulative, prev)
         IN  IF \A k \in TotalKeys : delta[k] <= 0
             THEN DeltaTurns(Tail(snapshots), cumulative, turns, sid, cwd)
             ELSE DeltaTurns(Tail(snapshots), cumulative,
                             Append(turns,
                                    CodexTurn(sid, cwd, Len(turns) + 1, mdl,
                                              DecomposeDelta(delta))),
                             sid, cwd)

TurnsFromTokenCountDeltas(snapshots, sid, cwd) ==
    DeltaTurns(snapshots, zero_total, <<>>, sid, cwd)

SingleTurnFromTotals(final_total, mdl, sid, cwd) ==
    LET d == DecomposeDelta(final_total)
    IN  IF d.total <= 0 THEN <<>>
        ELSE <<CodexTurn(sid, cwd, 1, mdl, d)>>

\* max(model_counts, key=model_counts.get): the first model, in order of first
\* occurrence among the turns, whose count is the largest.
ModelCount(turns, m) == Cardinality({i \in 1..Len(turns) : turns[i].model = m})

PrimaryModel(turns) ==
    LET idx == {i \in 1..Len(turns) : turns[i].model # ""}
    IN  IF idx = {} THEN ""
        ELSE LET best == {i \in idx : \A j \in idx :
                              ModelCount(turns, turns[j].model)
                                  <= ModelCount(turns, turns[i].model)}
                 first == CHOOSE i \in best : \A j \in best : i <= j
             IN  turns[first].model

\* Mutant: turns_user is the count of user_message events alone.
BuildSessionDictUserCountOnly(completed_turns, sid, cwd, n_user) ==
    [source |-> "codex",
     project |-> ProjectFromCwd(cwd),
     session_id |-> sid,
     model |-> PrimaryModel(completed_turns),
     turns_user |-> n_user,
     turns_assistant |-> Len(completed_turns),
     total_input_tokens |-> SumOver(completed_turns, "input_tokens"),
     total_output_tokens |-> SumOver(completed_turns, "output_tokens"),
     total_cache_read_tokens |-> SumOver(completed_turns, "cache_read_tokens"),
     total_cache_create_tokens |-> 0,
     total_reasoning_output_tokens |->
         SumOver(completed_turns, "reasoning_output_tokens"),
     total_tokens |-> SumOver(completed_turns, "input_tokens")
                          + SumOver(completed_turns, "output_tokens")
                          + SumOver(completed_turns, "cache_read_tokens"),
     subagent_turns |-> 0,
     duration_min |-> DurationOfSpan(first_ts, last_ts)]

BuildSessionDict(completed_turns, sid, cwd, n_user) ==
    LET total_input == SumOver(completed_turns, "input_tokens")
        total_output == SumOver(completed_turns, "output_tokens")
        total_cache_read == SumOver(completed_turns, "cache_read_tokens")
        total_cache_create == 0
        total_reasoning == SumOver(completed_turns, "reasoning_output_tokens")
        n_turns == Len(completed_turns)
    IN  [source |-> "codex",
         project |-> ProjectFromCwd(cwd),
         session_id |-> sid,
         model |-> PrimaryModel(completed_turns),
         turns_user |-> Max(n_user, n_turns),
         turns_assistant |-> n_turns,
         total_input_tokens |-> total_input,
         total_output_tokens |-> total_output,
         total_cache_read_tokens |-> total_cache_read,
         total_cache_create_tokens |-> total_cache_create,
         total_reasoning_output_tokens |-> total_reasoning,
         total_tokens |-> total_input + total_output + total_cache_read
                              + total_cache_create,
         subagent_turns |-> 0,
         duration_min |-> DurationOfSpan(first_ts, last_ts)]

\* Mutant: the counter-delta snapshots are tried before the task-marker turns.
ChooseProtocolDeltaFirst ==
    IF token_count_snapshots # <<>> THEN "delta"
    ELSE IF has_task_events /\ task_completed_turns # <<>> THEN "task"
    ELSE IF latest_total # None
            /\ \E k \in TotalKeys : latest_total[1][k] > 0 THEN "single"
    ELSE "none"

\* Mutant: task markers alone select the task-marker protocol, whether or not
\* a task_complete emitted a turn.
ChooseProtocolMarkersOnly ==
    IF has_task_events THEN "task"
    ELSE IF token_count_snapshots # <<>> THEN "delta"
    ELSE IF latest_total # None
            /\ \E k \in TotalKeys : latest_total[1][k] > 0 THEN "single"
    ELSE "none"

\* The branch chosen at codex.py:232-244.
ChooseProtocol ==
    IF has_task_events /\ task_completed_turns # <<>> THEN "task"
    ELSE IF token_count_snapshots # <<>> THEN "delta"
    ELSE IF latest_total # None
            /\ \E k \in TotalKeys : latest_total[1][k] > 0 THEN "single"
    ELSE "none"

CompletedTurns(p) ==
    IF p = "task" THEN task_completed_turns
    ELSE IF p = "delta" THEN
        TurnsFromTokenCountDeltas(token_count_snapshots, session_id, session_cwd)
    ELSE IF p = "single" THEN
        SingleTurnFromTotals(latest_total[1], current_model, session_id,
                             session_cwd)
    ELSE <<>>

\* End of the rollout file: codex.py:228-253, then extract_codex, codex.py:55-64.
CxEndOfFile ==
    /\ parser = "codex"
    /\ pc = "reading"
    /\ Feed(<<"CxEndOfFile", 0>>)
    /\ UNCHANGED tsVars
    /\ LET p == ChooseProtocol
           completed_turns == CompletedTurns(p)
       IN  /\ protocol' = p
           /\ IF completed_turns # <<>> THEN
                   /\ all_turns' = all_turns \o completed_turns
                   /\ all_sessions' =
                          Append(all_sessions,
                                 BuildSessionDict(completed_turns, session_id,
                                                  session_cwd, user_msg_count))
              ELSE UNCHANGED <<all_turns, all_sessions>>
    /\ pc' = "done"
    /\ UNCHANGED <<parser, log, lines_read, session_id, session_cwd,
                   latest_total, current_model, current_turn_total_at_start,
                   task_completed_turns, has_task_events, token_count_snapshots,
                   user_msg_count, turn_number, accVars, ccVars, cwVars>>

(***************************************************************************)
(* _common.py and the records claude_code.py and cowork.py share           *)
(***************************************************************************)
\* message.content of a user record: a str, a list of blocks (each block by
\* its type), or any other shape.
ContentStr == [kind |-> "str", blocks |-> <<>>]
ContentList(bs) == [kind |-> "list", blocks |-> bs]
ContentOther == [kind |-> "other", blocks |-> <<>>]

\* Mutant: every list content is genuine, tool_result blocks or not.
IsGenuineUserTurnAnyList(content) == content.kind \in {"str", "list"}

IsGenuineUserTurn(content) ==
    IF content.kind = "str" THEN TRUE
    ELSE IF content.kind = "list" THEN
        ~ \E i \in 1..Len(content.blocks) : content.blocks[i] = "tool_result"
    ELSE FALSE

\* A transcript or audit line of shape "object": type, message.content,
\* message.usage (None: absent or empty) and message.model.
Line(type, content, usage, mdl) ==
    [shape |-> "object", type |-> type, content |-> content, usage |-> usage,
     model |-> mdl]

\* The other shapes of a line: "blank" (nothing is left after strip()),
\* "not_json" (json.loads fails), "not_object"
\* (valid JSON that is no object), "null_message" (an object of the given type
\* whose message is null) and "null_usage" (its message.usage is null).
LineMalformed(shape, type) ==
    [shape |-> shape, type |-> type, content |-> ContentOther, usage |-> None,
     model |-> ""]

no_usage == [input_tokens |-> 0, output_tokens |-> 0,
             cache_read_input_tokens |-> 0, cache_creation_input_tokens |-> 0]

(***************************************************************************)
(* claude_code.py                                                          *)
(***************************************************************************)
\* The turn dict built at claude_code.py:136-152 and 211-227.
ClaudeCodeTurn(project, sid, n, mdl, usage, is_sub, sub_id) ==
    LET inp == usage.input_tokens
        out == usage.output_tokens
        cr == usage.cache_read_input_tokens
        cc == usage.cache_creation_input_tokens
        total == inp + out + cr + cc
    IN  [source |-> "claude_code",
         project |-> project,
         session_id |-> sid,
         turn_number |-> n,
         model |-> mdl,
         model_family |-> ModelFamily(mdl),
         input_tokens |-> inp,
         output_tokens |-> out,
         cache_read_tokens |-> cr,
         cache_create_tokens |-> cc,
         total_tokens |-> total,
         is_subagent |-> is_sub,
         subagent_id |-> sub_id]

\* The accumulator updates both loops make for an assistant record with usage
\* (claude_code.py:118-152 and 195-227).
CcAssistant(rec, is_sub, sub_id) ==
    LET usage == rec.usage[1]
    IN  /\ turns_assistant' = turns_assistant + 1
        /\ assistant_turn_num' = assistant_turn_num + 1
        /\ input_tokens' = input_tokens + usage.input_tokens
        /\ output_tokens' = output_tokens + usage.output_tokens
        /\ cache_read_tokens' = cache_read_tokens + usage.cache_read_input_tokens
        /\ cache_create_tokens' =
               cache_create_tokens + usage.cache_creation_input_tokens
        /\ session_turns' =
               Append(session_turns,
                      ClaudeCodeTurn("proj", session_id, assistant_turn_num + 1,
                                     rec.model, usage, is_sub, sub_id))

\* The line makes the main loop raise an exception that nothing catches:
\* rec.get on a value that is no dict (claude_code.py:86), msg.get on a null
\* message (claude_code.py:105-106, 113-114).
CcRaises(rec) ==
    \/ rec.shape = "not_object"
    \/ rec.shape = "null_message" /\ rec.type \in {"user", "assistant"}

\* One iteration of the main-transcript loop, claude_code.py:77-152.
CcLine(rec) ==
    /\ parser = "claude_code"
    /\ pc = "cc_main"
    /\ Feed(<<"CcLine", rec>>)
    /\ IF \/ rec.shape \in {"blank", "not_json", "not_object"}
          \/ rec.type \in {"file-history-snapshot", "system"}
       THEN UNCHANGED tsVars
       ELSE Stamp(rec)
    /\ log' = Append(log, rec)
    /\ lines_read' = lines_read + 1
    /\ pc' = IF CcRaises(rec) THEN "raised" ELSE pc
    /\ IF rec.shape \in {"blank", "not_json", "not_object", "null_message"} THEN
            UNCHANGED <<accVars, session_model>>
       ELSE IF rec.type \in {"file-history-snapshot", "system"} THEN
            UNCHANGED <<accVars, session_model>>
       ELSE IF rec.type = "user" THEN
            /\ turns_user' = IF IsGenuineUserTurn(rec.content)
                             THEN turns_user + 1 ELSE turns_user
            /\ UNCHANGED <<turns_assistant, input_tokens, output_tokens,
                           cache_read_tokens, cache_create_tokens, session_turns,
                           assistant_turn_num, session_model>>
       ELSE IF rec.type = "assistant" THEN
            IF rec.usage = None THEN UNCHANGED <<accVars, session_model>>
            ELSE /\ CcAssistant(rec, FALSE, None)
                 /\ session_model' =
                        IF rec.model # "" /\ rec.model # "<synthetic>"
                           /\ session_model = ""
                        THEN rec.model ELSE session_model
                 /\ UNCHANGED turns_user
       ELSE UNCHANGED <<accVars, session_model>>
    /\ UNCHANGED <<parser, cxVars, subagent_turns_count, agent_id, sub_files,
                   cwVars, outVars>>

\* End of the main transcript: the scan of <session>/subagents/*.jsonl starts
\* (claude_code.py:156-159).
CcEndOfMain ==
    /\ parser = "claude_code"
    /\ pc = "cc_main"
    /\ Feed(<<"CcEndOfMain", 0>>)
    /\ UNCHANGED tsVars
    /\ pc' = "cc_subagents"
    /\ UNCHANGED <<parser, log, lines_read, cxVars, accVars, ccVars, cwVars,
                   outVars>>

\* The mark log keeps where a subagent file with stem sa_name is opened.
FileMark(sa_name) ==
    [shape |-> "file", type |-> "", content |-> ContentOther, usage |-> None,
     model |-> "", stem |-> sa_name]

\* Mutant: the whole stem is taken as the agent id.
AgentIdOfWholeStem(sa_name) == sa_name

\* "agent-ab884ec" -> "ab884ec"; a stem is the sequence of its parts.
AgentIdOf(sa_name) ==
    IF Len(sa_name) > 0 /\ sa_name[1] = "agent-" THEN Tail(sa_name) ELSE sa_name

\* The next subagent file of the sorted glob is opened (claude_code.py:159-169).
CcOpenSubagent(sa_name) ==
    /\ parser = "claude_code"
    /\ pc = "cc_subagents"
    /\ Feed(<<"CcOpenSubagent", sa_name>>)
    /\ UNCHANGED tsVars
    /\ agent_id' = AgentIdOf(sa_name)
    /\ sub_files' = sub_files + 1
    /\ pc' = "cc_sub"
    /\ log' = Append(log, FileMark(sa_name))
    /\ UNCHANGED <<parser, lines_read, cxVars, accVars, session_model,
                   subagent_turns_count, cwVars, outVars>>

\* The line makes the subagent loop raise: claude_code.py:181, 185-186.
CcSubRaises(rec) ==
    \/ rec.shape = "not_object"
    \/ rec.shape = "null_message" /\ rec.type = "assistant"

\* One iteration of the subagent loop, claude_code.py:170-227.
CcSubLine(rec) ==
    /\ parser = "claude_code"
    /\ pc = "cc_sub"
    /\ Feed(<<"CcSubLine", rec>>)
    /\ IF \/ rec.shape \in {"blank", "not_json", "not_object", "null_message"}
          \/ rec.type # "assistant"
          \/ rec.usage = None
       THEN UNCHANGED tsVars
       ELSE Stamp(rec)
    /\ log' = Append(log, rec)
    /\ lines_read' = lines_read + 1
    /\ pc' = IF CcSubRaises(rec) THEN "raised" ELSE pc
    /\ IF \/ rec.shape \in {"blank", "not_json", "not_object", "null_message"}
          \/ rec.type # "assistant"
          \/ rec.usage = None THEN
            UNCHANGED <<accVars, subagent_turns_count>>
       ELSE /\ CcAssistant(rec, TRUE, Some(agent_id))
            /\ subagent_turns_count' = subagent_turns_count + 1
            /\ UNCHANGED turns_user
    /\ UNCHANGED <<parser, cxVars, session_model, agent_id, sub_files,
                   cwVars, outVars>>

\* End of a subagent file.
CcEndOfSubagent ==
    /\ parser = "claude_code"
    /\ pc = "cc_sub"
    /\ Feed(<<"CcEndOfSubagent", 0>>)
    /\ UNCHANGED tsVars
    /\ pc' = "cc_subagents"
    /\ UNCHANGED <<parser, log, lines_read, cxVars, accVars, ccVars, cwVars,
                   outVars>>

\* The session dict built at claude_code.py:255-272.
ClaudeCodeSession ==
    [source |-> "claude_code",
     project |-> "proj",
     session_id |-> session_id,
     model |-> session_model,
     turns_user |-> turns_user,
     turns_assistant |-> turns_assistant,
     total_input_tokens |-> input_tokens,
     total_output_tokens |-> output_tokens,
     total_cache_read_tokens |-> cache_read_tokens,
     total_cache_create_tokens |-> cache_create_tokens,
     total_tokens |-> input_tokens + output_tokens + cache_read_tokens
                          + cache_create_tokens,
     subagent_turns |-> subagent_turns_count,
     duration_min |-> DurationOfSpan(first_ts, last_ts)]

\* Mutant: a session without turns is emitted too.
CcReturnKeepsEmptySession ==
    /\ parser = "claude_code"
    /\ pc = "cc_subagents"
    /\ Feed(<<"CcReturn", 0>>)
    /\ UNCHANGED tsVars
    /\ all_turns' = all_turns \o session_turns
    /\ all_sessions' = Append(all_sessions, ClaudeCodeSession)
    /\ pc' = "done"
    /\ UNCHANGED <<parser, log, lines_read, cxVars, accVars, ccVars, cwVars>>

\* No subagent file is left: claude_code.py:231-278.
CcReturn ==
    /\ parser = "claude_code"
    /\ pc = "cc_subagents"
    /\ Feed(<<"CcReturn", 0>>)
    /\ UNCHANGED tsVars
    /\ IF session_turns = <<>> THEN UNCHANGED <<all_turns, all_sessions>>
       ELSE /\ all_turns' = all_turns \o session_turns
            /\ all_sessions' = Append(all_sessions, ClaudeCodeSession)
    /\ pc' = "done"
    /\ UNCHANGED <<parser, log, lines_read, cxVars, accVars, ccVars, cwVars>>

(***************************************************************************)
(* cowork.py                                                               *)
(***************************************************************************)
\* A local_*.json metadata file: sessionId with "local_" removed, createdAt
\* and lastActivityAt (None or epoch milliseconds), and whether
\* local_<id>/audit.jsonl is a file.
Meta(sid, created, last, audit) ==
    [sessionId |-> sid, createdAt |-> created, lastActivityAt |-> last,
     audit |-> audit]

\* The mark log keeps where the metadata file m is read.
MetaMark(m) ==
    [shape |-> "meta", type |-> "", content |-> ContentOther, usage |-> None,
     model |-> "", meta |-> m]

\* The next metadata file of sorted(json_files) is read: cowork.py:70-90.
CwOpenMeta(m) ==
    /\ parser = "cowork"
    /\ pc = "cw_scan"
    /\ Feed(<<"CwOpenMeta", m>>)
    /\ UNCHANGED tsVars
    /\ meta_files' = meta_files + 1
    /\ log' = Append(log, MetaMark(m))
    /\ IF ~ m.audit THEN UNCHANGED <<pc, meta, session_id, accVars>>
       ELSE /\ pc' = "cw_audit"
            /\ meta' = Some(m)
            /\ session_id' = m.sessionId
            /\ turns_user' = 0
            /\ turns_assistant' = 0
            /\ input_tokens' = 0
            /\ output_tokens' = 0
            /\ cache_read_tokens' = 0
            /\ cache_create_tokens' = 0
            /\ session_turns' = <<>>
            /\ assistant_turn_num' = 0
    /\ UNCHANGED <<parser, lines_read, session_cwd, latest_total, current_model,
                   current_turn_total_at_start, task_completed_turns,
                   has_task_events, token_count_snapshots, user_msg_count,
                   turn_number, protocol, ccVars, raw_sessions, skip_first_n,
                   outVars>>

\* The turn dict built at cowork.py:133-150.
CoworkTurn(project, sid, n, mdl, usage) ==
    LET inp == usage.input_tokens
        out == usage.output_tokens
        cr == usage.cache_read_input_tokens
        cc == usage.cache_creation_input_tokens
        total == inp + out + cr + cc
    IN  [source |-> "cowork",
         project |-> project,
         session_id |-> sid,
         turn_number |-> n,
         model |-> mdl,
         model_family |-> ModelFamily(mdl),
         input_tokens |-> inp,
         output_tokens |-> out,
         cache_read_tokens |-> cr,
         cache_create_tokens |-> cc,
         reasoning_output_tokens |-> 0,
         total_tokens |-> total,
         is_subagent |-> FALSE,
         subagent_id |-> None]

\* The line makes the audit loop raise an exception that nothing catches:
\* rec.get on a value that is no dict (cowork.py:103), .get on a null message
\* (cowork.py:104-107), usage.get on a null usage (cowork.py:119-125).
\* Mutant: json.JSONDecodeError is not caught.
CwRaisesOnBadJson(rec) ==
    \/ rec.shape \in {"not_json", "not_object", "null_message"}
    \/ rec.shape = "null_usage" /\ rec.type = "assistant"

CwRaises(rec) ==
    \/ rec.shape \in {"not_object", "null_message"}
    \/ rec.shape = "null_usage" /\ rec.type = "assistant"

\* One iteration of the audit loop, cowork.py:94-150.
CwLine(rec) ==
    /\ parser = "cowork"
    /\ pc = "cw_audit"
    /\ Feed(<<"CwLine", rec>>)
    /\ UNCHANGED tsVars
    /\ log' = Append(log, rec)
    /\ lines_read' = lines_read + 1
    /\ pc' = IF CwRaises(rec) THEN "raised" ELSE pc
    /\ IF rec.shape \in {"blank", "not_json"} \/ CwRaises(rec)
       THEN UNCHANGED accVars
       ELSE IF rec.type = "user" THEN
            /\ turns_user' = IF IsGenuineUserTurn(rec.content)
                             THEN turns_user + 1 ELSE turns_user
            /\ UNCHANGED <<turns_assistant, input_tokens, output_tokens,
                           cache_read_tokens, cache_create_tokens, session_turns,
                           assistant_turn_num>>
       ELSE IF rec.type = "assistant" THEN
            LET usage == IF rec.usage = None THEN no_usage ELSE rec.usage[1]
            IN  /\ turns_assistant' = turns_assistant + 1
                /\ assistant_turn_num' = assistant_turn_num + 1
                /\ input_tokens' = input_tokens + usage.input_tokens
                /\ output_tokens' = output_tokens + usage.output_tokens
                /\ cache_read_tokens' =
                       cache_read_tokens + usage.cache_read_input_tokens
                /\ cache_create_tokens' =
                       cache_create_tokens + usage.cache_creation_input_tokens
                /\ session_turns' =
                       Append(session_turns,
                              CoworkTurn("proj", session_id,
                                         assistant_turn_num + 1, rec.model, usage))
                /\ UNCHANGED turns_user
       ELSE UNCHANGED accVars
    /\ UNCHANGED <<parser, session_cwd, session_id, latest_total,
                   current_model, current_turn_total_at_start,
                   task_completed_turns, has_task_events, token_count_snapshots,
                   user_msg_count, turn_number, protocol, ccVars, cwVars,
                   outVars>>

\* Primary model, cowork.py:170-178.
RECURSIVE NonSynthetic(_)
NonSynthetic(turns) ==
    IF turns = <<>> THEN <<>>
    ELSE IF turns[1].model # "<synthetic>"
         THEN <<turns[1]>> \o NonSynthetic(Tail(turns))
         ELSE NonSynthetic(Tail(turns))

\* The raw_sessions entry built at cowork.py:180-203.
CoworkRawSession ==
    [created_at_ms |-> meta[1].createdAt,
     session_id |-> session_id,
     turns |-> session_turns,
     session_dict |->
        [source |-> "cowork",
         project |-> "proj",
         session_id |-> session_id,
         model |-> PrimaryModel(NonSynthetic(session_turns)),
         turns_user |-> turns_user,
         turns_assistant |-> turns_assistant,
         total_input_tokens |-> input_tokens,
         total_output_tokens |-> output_tokens,
         total_cache_read_tokens |-> cache_read_tokens,
         total_cache_create_tokens |-> cache_create_tokens,
         total_reasoning_output_tokens |-> 0,
         total_tokens |-> input_tokens + output_tokens + cache_read_tokens
                              + cache_create_tokens,
         subagent_turns |-> 0,
         duration_min |-> DurationOfMeta(meta[1].createdAt,
                                         meta[1].lastActivityAt)]]

\* Mutant: a session without turns is not kept.
CwEndOfAuditDropsTurnless ==
    /\ parser = "cowork"
    /\ pc = "cw_audit"
    /\ Feed(<<"CwEndOfAudit", 0>>)
    /\ UNCHANGED tsVars
    /\ raw_sessions' = IF session_turns = <<>> THEN raw_sessions
                       ELSE Append(raw_sessions, CoworkRawSession)
    /\ pc' = "cw_scan"
    /\ UNCHANGED <<parser, log, lines_read, cxVars, accVars, ccVars, meta,
                   meta_files, skip_first_n, outVars>>

\* End of the audit log: cowork.py:154-203.
CwEndOfAudit ==
    /\ parser = "cowork"
    /\ pc = "cw_audit"
    /\ Feed(<<"CwEndOfAudit", 0>>)
    /\ UNCHANGED tsVars
    /\ raw_sessions' = Append(raw_sessions, CoworkRawSession)
    /\ pc' = "cw_scan"
    /\ UNCHANGED <<parser, log, lines_read, cxVars, accVars, ccVars, meta,
                   meta_files, skip_first_n, outVars>>

\* s.get("created_at_ms") or 0
SortKey(rs) == IF rs.created_at_ms = None THEN 0 ELSE rs.created_at_ms[1]

\* list.sort(key=...): stable, ascending.
RECURSIVE InsertByKey(_, _)
InsertByKey(sorted, rs) ==
    IF sorted = <<>> THEN <<rs>>
    ELSE IF SortKey(sorted[Len(sorted)]) <= SortKey(rs) THEN Append(sorted, rs)
    ELSE Append(InsertByKey(SubSeq(sorted, 1, Len(sorted) - 1), rs),
                sorted[Len(sorted)])

RECURSIVE SortByCreated(_)
SortByCreated(rss) ==
    IF rss = <<>> THEN <<>>
    ELSE InsertByKey(SortByCreated(SubSeq(rss, 1, Len(rss) - 1)), rss[Len(rss)])

\* Mutant: the oldest n sessions are dropped whatever the session count.
SkipFirstUnguarded(rss, n) ==
    IF n > 0 THEN SubSeq(rss, n + 1, Len(rss)) ELSE rss

\* raw_sessions[skip_first_n:] under the guard of cowork.py:209.
SkipFirst(rss, n) ==
    IF n > 0 /\ Len(rss) > n THEN SubSeq(rss, n + 1, Len(rss)) ELSE rss

RECURSIVE FlattenTurns(_)
FlattenTurns(rss) ==
    IF rss = <<>> THEN <<>> ELSE rss[1].turns \o FlattenTurns(Tail(rss))

\* No metadata file is left: cowork.py:205-219.
CwReturn ==
    /\ parser = "cowork"
    /\ pc = "cw_scan"
    /\ Feed(<<"CwReturn", 0>>)
    /\ UNCHANGED tsVars
    /\ LET kept == SkipFirst(SortByCreated(raw_sessions), skip_first_n)
       IN  /\ all_turns' = FlattenTurns(kept)
           /\ all_sessions' = [i \in 1..Len(kept) |-> kept[i].session_dict]
    /\ pc' = "done"
    /\ UNCHANGED <<parser, log, lines_read, cxVars, accVars, ccVars, cwVars>>

(***************************************************************************)
(* The inputs: cumulative totals a token_count line may carry.  The vendor *)
(* counts cached tokens inside input and reasoning tokens inside output    *)
(* (codex.py:14-19), so cached <= input and reasoning <= output in every   *)
(* cumulative total; successive totals are otherwise unconstrained (they   *)
(* may stay, grow or shrink).                                              *)
(***************************************************************************)
TokenRange == 0..1

CumulativeTotals ==
    {t \in [TotalKeys -> TokenRange] :
        /\ t.cached_input_tokens <= t.input_tokens
        /\ t.reasoning_output_tokens <= t.output_tokens}

CodexLines ==
    {EvTaskStarted, EvTaskComplete, EvTokenCountNoInfo}
        \cup {EvTokenCount(t) : t \in CumulativeTotals}

\* message.usage blocks of assistant records.
Usages ==
    {[input_tokens |-> 1, output_tokens |-> 1, cache_read_input_tokens |-> 0,
      cache_creation_input_tokens |-> 0],
     [input_tokens |-> 0, output_tokens |-> 2, cache_read_input_tokens |-> 1,
      cache_creation_input_tokens |-> 1]}

ClaudeCodeLines ==
    {Line("user", ContentStr, None, ""),
     Line("system", ContentOther, None, ""),
     Line("assistant", ContentOther, None, "claude-opus")}
        \cup {Line("assistant", ContentOther, Some(u), "claude-opus") : u \in Usages}

SubagentFiles == {<<"agent-", "a1">>, <<"b2">>}

CoworkLines ==
    {Line("user", ContentStr, None, ""),
     Line("user", ContentList(<<"tool_result">>), None, "")}
        \cup {Line("assistant", ContentOther, Some(u), "claude-opus") : u \in Usages}

\* The k-th metadata file of the directory, in the order of sorted(json_files),
\* names the k-th session id.
SessionIds == <<"s1", "s2", "s3", "s4">>

CreatedAt == {None, Some(1), Some(2)}

MaxMetaFiles == 2

MaxSubagentFiles == 1

SkipValues == {0, 1}

EntryState ==
    /\ pc = CASE parser = "codex" -> "reading"
            [] parser = "claude_code" -> "cc_main"
            [] parser = "cowork" -> "cw_scan"
    /\ log = <<>>
    /\ lines_read = 0
    /\ session_id = IF parser = "claude_code" THEN "sess-1" ELSE ""
    /\ session_cwd = <<>>
    /\ latest_total = None
    /\ current_model = ""
    /\ current_turn_total_at_start = None
    /\ task_completed_turns = <<>>
    /\ has_task_events = FALSE
    /\ token_count_snapshots = <<>>
    /\ user_msg_count = 0
    /\ turn_number = 0
    /\ protocol = "none"
    /\ turns_user = 0
    /\ turns_assistant = 0
    /\ input_tokens = 0
    /\ output_tokens = 0
    /\ cache_read_tokens = 0
    /\ cache_create_tokens = 0
    /\ session_turns = <<>>
    /\ assistant_turn_num = 0
    /\ session_model = ""
    /\ subagent_turns_count = 0
    /\ agent_id = <<>>
    /\ sub_files = 0
    /\ meta = None
    /\ meta_files = 0
    /\ raw_sessions = <<>>
    /\ all_turns = <<>>
    /\ all_sessions = <<>>
    /\ first_ts = None
    /\ last_ts = None

Init ==
    /\ parser \in {"codex", "claude_code", "cowork"}
    /\ EntryState
    /\ skip_first_n \in IF parser = "cowork" THEN SkipValues ELSE {0}
    /\ call = 0
    /\ disk = <<>>
    /\ first_result = None
    /\ written = None

CxReadLine == lines_read < MaxLines /\ \E ev \in CodexLines : CxLine(ev)

CcReadLine == lines_read < MaxRecords /\ \E rec \in ClaudeCodeLines : CcLine(rec)

CcNextSubagent ==
    sub_files < MaxSubagentFiles /\ \E f \in SubagentFiles : CcOpenSubagent(f)

CcReadSubLine ==
    lines_read < MaxRecords /\ \E rec \in ClaudeCodeLines : CcSubLine(rec)

CwNextMeta ==
    /\ meta_files < MaxMetaFiles
    /\ \E c \in CreatedAt, a \in BOOLEAN :
           CwOpenMeta(Meta(SessionIds[meta_files + 1], c, None, a))

CwReadLine == lines_read < MaxRecords /\ \E rec \in CoworkLines : CwLine(rec)

Next ==
    \/ CxReadLine
    \/ CxEndOfFile
    \/ CcReadLine
    \/ CcEndOfMain
    \/ CcNextSubagent
    \/ CcReadSubLine
    \/ CcEndOfSubagent
    \/ CcReturn
    \/ CwNextMeta
    \/ CwReadLine
    \/ CwEndOfAudit
    \/ CwReturn

Spec == Init /\ [][Next]_vars

\* One rollout file parsed by extract_codex.
InitCodex == Init /\ parser = "codex"

NextCodex ==
    \/ CxReadLine
    \/ CxEndOfFile

SpecCodex == InitCodex /\ [][NextCodex]_vars

\* One rollout file with every kind of line: session_meta, turn_context,
\* user_message, task markers, two growing token_count checkpoints, and the
\* malformed lines.
CodexFileLines ==
    {EvSessionMeta("sid-1", <<"home", "proj">>),
     EvTurnContext("gpt-5"),
     EvUserMessage,
     EvTaskStarted,
     EvTaskComplete,
     EvTokenCount([input_tokens |-> 1, cached_input_tokens |-> 0,
                   output_tokens |-> 1, reasoning_output_tokens |-> 0]),
     EvTokenCount([input_tokens |-> 2, cached_input_tokens |-> 1,
                   output_tokens |-> 2, reasoning_output_tokens |-> 1]),
     EvMalformed("not_json", ""),
     EvMalformed("not_object", ""),
     EvMalformed("null_payload", "event_msg")}

CxReadFileLine == lines_read < MaxLines /\ \E ev \in CodexFileLines : CxLine(ev)

NextCodexFile ==
    \/ CxReadFileLine
    \/ CxEndOfFile

SpecCodexFile == InitCodex /\ [][NextCodexFile]_vars

\* The transcripts of one cli-a session, or the audit logs of one desktop
\* project, with every kind of line: user records of each content shape,
\* bookkeeping records, assistant records with and without usage, and the
\* malformed lines.
TranscriptLines ==
    {Line("user", ContentStr, None, ""),
     Line("user", ContentList(<<"text">>), None, ""),
     Line("user", ContentList(<<"text", "tool_result">>), None, ""),
     Line("user", ContentOther, None, ""),
     Line("system", ContentOther, None, ""),
     Line("file-history-snapshot", ContentOther, None, ""),
     Line("assistant", ContentOther, None, "claude-opus"),
     Line("assistant", ContentOther,
          Some([input_tokens |-> 1, output_tokens |-> 1,
                cache_read_input_tokens |-> 0,
                cache_creation_input_tokens |-> 0]), "claude-opus"),
     LineMalformed("not_json", ""),
     LineMalformed("not_object", ""),
     LineMalformed("null_message", "assistant"),
     LineMalformed("null_usage", "assistant")}

CcReadFileLine ==
    lines_read < MaxRecords /\ \E rec \in TranscriptLines : CcLine(rec)

CcReadSubFileLine ==
    lines_read < MaxRecords /\ \E rec \in TranscriptLines : CcSubLine(rec)

CwReadFileLine ==
    lines_read < MaxRecords /\ \E rec \in TranscriptLines : CwLine(rec)

\* The next metadata file, with or without an audit log.
CwNextFileMeta ==
    /\ meta_files < MaxMetaFiles
    /\ \E a \in BOOLEAN :
           CwOpenMeta(Meta(SessionIds[meta_files + 1], Some(1), None, a))

InitTranscripts == Init /\ parser \in {"claude_code", "cowork"}

NextTranscripts ==
    \/ CcReadFileLine
    \/ CcEndOfMain
    \/ CcNextSubagent
    \/ CcReadSubFileLine
    \/ CcEndOfSubagent
    \/ CcReturn
    \/ CwNextFileMeta
    \/ CwReadFileLine
    \/ CwEndOfAudit
    \/ CwReturn

SpecTranscripts == InitTranscripts /\ [][NextTranscripts]_vars

\* Mutant: the result lists live outside the call and are not emptied.
CallAgainKeepsResults ==
    /\ pc = "done"
    /\ call = 1
    /\ call' = 2
    /\ first_result' = Some([turns |-> all_turns, sessions |-> all_sessions])
    /\ pc' = CASE parser = "codex" -> "reading"
             [] parser = "claude_code" -> "cc_main"
             [] parser = "cowork" -> "cw_scan"
    /\ log' = <<>>
    /\ lines_read' = 0
    /\ session_id' = IF parser = "claude_code" THEN "sess-1" ELSE ""
    /\ session_cwd' = <<>>
    /\ latest_total' = None
    /\ current_model' = ""
    /\ current_turn_total_at_start' = None
    /\ task_completed_turns' = <<>>
    /\ has_task_events' = FALSE
    /\ token_count_snapshots' = <<>>
    /\ user_msg_count' = 0
    /\ turn_number' = 0
    /\ protocol' = "none"
    /\ turns_user' = 0
    /\ turns_assistant' = 0
    /\ input_tokens' = 0
    /\ output_tokens' = 0
    /\ cache_read_tokens' = 0
    /\ cache_create_tokens' = 0
    /\ session_turns' = <<>>
    /\ assistant_turn_num' = 0
    /\ session_model' = ""
    /\ subagent_turns_count' = 0
    /\ agent_id' = <<>>
    /\ sub_files' = 0
    /\ meta' = None
    /\ meta_files' = 0
    /\ raw_sessions' = <<>>
    /\ first_ts' = None
    /\ last_ts' = None
    /\ UNCHANGED <<parser, skip_first_n, disk, written, all_turns, all_sessions>>

\* The entry point is called a second time on the same directory with the same
\* arguments: the first call's return value is kept by the caller, and the
\* call starts from fresh locals and empty result lists (codex.py:47-48,
\* claude_code.py:44-45, cowork.py:66).  The files are read again from disk.
CallAgain ==
    /\ pc = "done"
    /\ call = 1
    /\ call' = 2
    /\ first_result' = Some([turns |-> all_turns, sessions |-> all_sessions])
    /\ pc' = CASE parser = "codex" -> "reading"
             [] parser = "claude_code" -> "cc_main"
             [] parser = "cowork" -> "cw_scan"
    /\ log' = <<>>
    /\ lines_read' = 0
    /\ session_id' = IF parser = "claude_code" THEN "sess-1" ELSE ""
    /\ session_cwd' = <<>>
    /\ latest_total' = None
    /\ current_model' = ""
    /\ current_turn_total_at_start' = None
    /\ task_completed_turns' = <<>>
    /\ has_task_events' = FALSE
    /\ token_count_snapshots' = <<>>
    /\ user_msg_count' = 0
    /\ turn_number' = 0
    /\ protocol' = "none"
    /\ turns_user' = 0
    /\ turns_assistant' = 0
    /\ input_tokens' = 0
    /\ output_tokens' = 0
    /\ cache_read_tokens' = 0
    /\ cache_create_tokens' = 0
    /\ session_turns' = <<>>
    /\ assistant_turn_num' = 0
    /\ session_model' = ""
    /\ subagent_turns_count' = 0
    /\ agent_id' = <<>>
    /\ sub_files' = 0
    /\ meta' = None
    /\ meta_files' = 0
    /\ raw_sessions' = <<>>
    /\ first_ts' = None
    /\ last_ts' = None
    /\ all_turns' = <<>>
    /\ all_sessions' = <<>>
    /\ UNCHANGED <<parser, skip_first_n, disk, written>>

\* A directory is parsed, and then parsed again: the first call records what
\* it reads from disk, the second call reads the same content back.
InitTwice ==
    /\ parser \in {"codex", "claude_code", "cowork"}
    /\ EntryState
    /\ skip_first_n \in IF parser = "cowork" THEN SkipValues ELSE {0}
    /\ call = 1
    /\ disk = <<>>
    /\ first_result = None
    /\ written = None

NextTwice ==
    \/ CxReadLine
    \/ CxEndOfFile
    \/ CcReadLine
    \/ CcEndOfMain
    \/ CcNextSubagent
    \/ CcReadSubLine
    \/ CcEndOfSubagent
    \/ CcReturn
    \/ CwNextMeta
    \/ CwReadLine
    \/ CwEndOfAudit
    \/ CwReturn
    \/ CallAgain

SpecTwice == InitTwice /\ [][NextTwice]_vars

\* Logs whose records carry timestamps, and metadata files that carry
\* lastActivityAt: the instants are a few seconds, respectively milliseconds.
StampTexts == {NoTimestamp, IsoText(0), IsoText(1), IsoText(60)}

LastActivityAt == {None, Some(1), Some(60001)}

StampedCodexLines ==
    {Stamped(EvTokenCount(t), ts_str) :
        t \in {[input_tokens |-> 1, cached_input_tokens |-> 0,
                output_tokens |-> 1, reasoning_output_tokens |-> 0],
               [input_tokens |-> 2, cached_input_tokens |-> 1,
                output_tokens |-> 2, reasoning_output_tokens |-> 1]},
        ts_str \in StampTexts}

StampedTranscriptLines ==
    {Stamped(rec, ts_str) :
        rec \in {Line("user", ContentStr, None, ""),
                 Line("assistant", ContentOther,
                      Some([input_tokens |-> 1, output_tokens |-> 1,
                            cache_read_input_tokens |-> 0,
                            cache_creation_input_tokens |-> 0]), "claude-opus")},
        ts_str \in StampTexts}

CxReadStampedLine ==
    lines_read < MaxLines /\ \E ev \in StampedCodexLines : CxLine(ev)

CcReadStampedLine ==
    lines_read < MaxRecords /\ \E rec \in StampedTranscriptLines : CcLine(rec)

CcReadStampedSubLine ==
    lines_read < MaxRecords /\ \E rec \in StampedTranscriptLines : CcSubLine(rec)

CwNextTimedMeta ==
    /\ meta_files < MaxMetaFiles
    /\ \E c \in CreatedAt, l \in LastActivityAt :
           CwOpenMeta(Meta(SessionIds[meta_files + 1], c, l, TRUE))

NextDuration ==
    \/ CxReadStampedLine
    \/ CxEndOfFile
    \/ CcReadStampedLine
    \/ CcEndOfMain
    \/ CcNextSubagent
    \/ CcReadStampedSubLine
    \/ CcEndOfSubagent
    \/ CcReturn
    \/ CwNextTimedMeta
    \/ CwReadLine
    \/ CwEndOfAudit
    \/ CwReturn

SpecDuration == Init /\ [][NextDuration]_vars

\* A desktop project whose metadata files name any session id: the sessionId
\* is read from the content of the file, not from its name.
CwNextNamedMeta ==
    /\ meta_files < MaxMetaFiles
    /\ \E sid \in {"s1", "s2"}, c \in CreatedAt :
           CwOpenMeta(Meta(sid, c, None, TRUE))

InitCowork == Init /\ parser = "cowork"

NextCowork ==
    \/ CwNextNamedMeta
    \/ CwReadLine
    \/ CwEndOfAudit
    \/ CwReturn

SpecCowork == InitCowork /\ [][NextCowork]_vars

\* What the first call read from disk was a line that the loop passes over:
\* a blank line, or a line that json.loads rejects.
IsSkippedLine(c) ==
    /\ c[1] \in {"CxLine", "CcLine", "CcSubLine", "CwLine"}
    /\ c[2].shape \in {"blank", "not_json"}

\* The entry point is called again on the same directory after the blank
\* lines and the lines that are no JSON have been removed from every log.
CallOnCleanedLog ==
    /\ pc = "done"
    /\ call = 1
    /\ call' = 2
    /\ first_result' = Some([turns |-> all_turns, sessions |-> all_sessions,
                            log |-> log])
    /\ pc' = CASE parser = "codex" -> "reading"
             [] parser = "claude_code" -> "cc_main"
             [] parser = "cowork" -> "cw_scan"
    /\ log' = <<>>
    /\ lines_read' = 0
    /\ session_id' = IF parser = "claude_code" THEN "sess-1" ELSE ""
    /\ session_cwd' = <<>>
    /\ latest_total' = None
    /\ current_model' = ""
    /\ current_turn_total_at_start' = None
    /\ task_completed_turns' = <<>>
    /\ has_task_events' = FALSE
    /\ token_count_snapshots' = <<>>
    /\ user_msg_count' = 0
    /\ turn_number' = 0
    /\ protocol' = "none"
    /\ turns_user' = 0
    /\ turns_assistant' = 0
    /\ input_tokens' = 0
    /\ output_tokens' = 0
    /\ cache_read_tokens' = 0
    /\ cache_create_tokens' = 0
    /\ session_turns' = <<>>
    /\ assistant_turn_num' = 0
    /\ session_model' = ""
    /\ subagent_turns_count' = 0
    /\ agent_id' = <<>>
    /\ sub_files' = 0
    /\ meta' = None
    /\ meta_files' = 0
    /\ raw_sessions' = <<>>
    /\ first_ts' = None
    /\ last_ts' = None
    /\ all_turns' = <<>>
    /\ all_sessions' = <<>>
    /\ disk' = SelectSeq(disk, LAMBDA c : ~ IsSkippedLine(c))
    /\ UNCHANGED <<parser, skip_first_n, written>>

\* Logs with blank lines and lines that are no JSON among the records.
DirtyCodexLines ==
    {EvTaskStarted, EvTaskComplete, EvUserMessage,
     EvTokenCount([input_tokens |-> 1, cached_input_tokens |-> 0,
                   output_tokens |-> 1, reasoning_output_tokens |-> 0]),
     EvTokenCount([input_tokens |-> 2, cached_input_tokens |-> 1,
                   output_tokens |-> 2, reasoning_output_tokens |-> 1]),
     EvMalformed("blank", ""),
     EvMalformed("not_json", "")}

DirtyTranscriptLines ==
    {Line("user", ContentStr, None, ""),
     Line("assistant", ContentOther,
          Some([input_tokens |-> 1, output_tokens |-> 1,
                cache_read_input_tokens |-> 0,
                cache_creation_input_tokens |-> 0]), "claude-opus"),
     LineMalformed("blank", ""),
     LineMalformed("not_json", "")}

CxReadDirtyLine ==
    lines_read < MaxLines /\ \E ev \in DirtyCodexLines : CxLine(ev)

CcReadDirtyLine ==
    lines_read < MaxRecords /\ \E rec \in DirtyTranscriptLines : CcLine(rec)

CcReadDirtySubLine ==
    lines_read < MaxRecords /\ \E rec \in DirtyTranscriptLines : CcSubLine(rec)

CwReadDirtyLine ==
    lines_read < MaxRecords /\ \E rec \in DirtyTranscriptLines : CwLine(rec)

NextCleaned ==
    \/ CxReadDirtyLine
    \/ CxEndOfFile
    \/ CcReadDirtyLine
    \/ CcEndOfMain
    \/ CcNextSubagent
    \/ CcReadDirtySubLine
    \/ CcEndOfSubagent
    \/ CcReturn
    \/ CwNextFileMeta
    \/ CwReadDirtyLine
    \/ CwEndOfAudit
    \/ CwReturn
    \/ CallOnCleanedLog

SpecCleaned == InitTwice /\ [][NextCleaned]_vars

(***************************************************************************)
(* extract_cowork on a root directory: every <org>/<project> directory is  *)
(* handed to _parse_project in turn (cowork.py:37-53).  The parser starts  *)
(* inside the first project directory.                                     *)
(***************************************************************************)
MaxProjects == 2

\* The mark log keeps where the next project directory is entered.
ProjectMark ==
    [shape |-> "project", type |-> "", content |-> ContentOther, usage |-> None,
     model |-> ""]

ProjectMarks(l) == {j \in 1..Len(l) : l[j].shape = "project"}

\* _parse_project returns, and its turns and sessions are added to the
\* combined lists (cowork.py:205-219, 47-51).
CwProjectReturn ==
    /\ parser = "cowork"
    /\ pc = "cw_scan"
    /\ Feed(<<"CwProjectReturn", 0>>)
    /\ UNCHANGED tsVars
    /\ LET kept == SkipFirst(SortByCreated(raw_sessions), skip_first_n)
       IN  /\ all_turns' = all_turns \o FlattenTurns(kept)
           /\ all_sessions' =
                  all_sessions \o [i \in 1..Len(kept) |-> kept[i].session_dict]
    /\ pc' = "cw_root"
    /\ UNCHANGED <<parser, log, lines_read, cxVars, accVars, ccVars, cwVars>>

\* The next project directory is handed to _parse_project, with the same
\* skip_first_n (cowork.py:43-49, 66).
CwNextProject ==
    /\ parser = "cowork"
    /\ pc = "cw_root"
    /\ Cardinality(ProjectMarks(log)) + 1 < MaxProjects
    /\ Feed(<<"CwNextProject", 0>>)
    /\ UNCHANGED tsVars
    /\ log' = Append(log, ProjectMark)
    /\ raw_sessions' = <<>>
    /\ pc' = "cw_scan"
    /\ UNCHANGED <<parser, lines_read, cxVars, accVars, ccVars, meta, meta_files,
                   skip_first_n, outVars>>

\* No project directory is left: cowork.py:53.
CwRootReturn ==
    /\ parser = "cowork"
    /\ pc = "cw_root"
    /\ Feed(<<"CwRootReturn", 0>>)
    /\ UNCHANGED tsVars
    /\ pc' = "done"
    /\ UNCHANGED <<parser, log, lines_read, cxVars, accVars, ccVars, cwVars,
                   outVars>>

NextRoot ==
    \/ CwNextMeta
    \/ CwReadLine
    \/ CwEndOfAudit
    \/ CwProjectReturn
    \/ CwNextProject
    \/ CwRootReturn

SpecRoot == InitCowork /\ [][NextRoot]_vars

\* One rollout file whose turn_context events name two models.
CodexModelLines ==
    {EvTurnContext("gpt-5"),
     EvTurnContext("o3"),
     EvTaskStarted,
     EvTaskComplete,
     EvTokenCount([input_tokens |-> 1, cached_input_tokens |-> 0,
                   output_tokens |-> 1, reasoning_output_tokens |-> 0]),
     EvTokenCount([input_tokens |-> 2, cached_input_tokens |-> 1,
                   output_tokens |-> 2, reasoning_output_tokens |-> 1])}

CxReadModelLine ==
    lines_read < MaxLines /\ \E ev \in CodexModelLines : CxLine(ev)

NextCodexModels ==
    \/ CxReadModelLine
    \/ CxEndOfFile

SpecCodexModels == InitCodex /\ [][NextCodexModels]_vars

(***************************************************************************)
(* Output writers (output.py, schema.py)                                   *)
(***************************************************************************)
TURN_FIELDS ==
    <<"source", "machine", "project", "session_id", "turn_number", "timestamp",
      "model", "model_family", "input_tokens", "output_tokens",
      "cache_read_tokens", "cache_create_tokens", "total_tokens">>

SESSION_FIELDS ==
    <<"source", "machine", "project", "session_id", "title", "model",
      "created_at", "duration_min", "turns_user", "turns_assistant",
      "total_input_tokens", "total_output_tokens", "total_cache_read_tokens",
      "total_cache_create_tokens", "total_tokens">>

\* The fields whose values are integers (_TURN_TYPES, _SESSION_TYPES).
IntFields ==
    {"turn_number", "input_tokens", "output_tokens", "cache_read_tokens",
     "cache_create_tokens", "total_tokens", "turns_user", "turns_assistant",
     "total_input_tokens", "total_output_tokens", "total_cache_read_tokens",
     "total_cache_create_tokens"}

FieldSet(fields) == {fields[i] : i \in 1..Len(fields)}

\* d.get(k, default)
Get(d, k, default) == IF k \in DOMAIN d THEN d[k] ELSE default

\* {k: d.get(k) for k in fields}.  The records of this model carry no machine,
\* timestamp, title or created_at, which therefore read as None.
Projected(d, fields) == [k \in FieldSet(fields) |-> Get(d, k, None)]

\* The record of one JSONL line: the projection and its _record_type.
JsonlRecord(d, fields, record_type) ==
    [k \in FieldSet(fields) \cup {"_record_type"} |->
        IF k = "_record_type" THEN record_type ELSE Get(d, k, None)]

\* The text csv.DictWriter writes for one cell: str() of an integer, the
\* string itself, and the empty string for a missing key.
CsvCell(d, k) ==
    IF k \notin DOMAIN d THEN ""
    ELSE IF k \in IntFields THEN ToString(d[k])
    ELSE d[k]

CsvRow(d, fields) == [k \in FieldSet(fields) |-> CsvCell(d, k)]

\* The turns and sessions of the envelope of write_json (output.py:23-30).
write_json(turns, sessions) ==
    [format |-> "json",
     turns |-> [i \in 1..Len(turns) |-> Projected(turns[i], TURN_FIELDS)],
     sessions |->
         [i \in 1..Len(sessions) |-> Projected(sessions[i], SESSION_FIELDS)]]

\* The rows of the two files of write_csv (output.py:63-73).
write_csv(turns, sessions) ==
    [format |-> "csv",
     turns |-> [i \in 1..Len(turns) |-> CsvRow(turns[i], TURN_FIELDS)],
     sessions |->
         [i \in 1..Len(sessions) |-> CsvRow(sessions[i], SESSION_FIELDS)]]

\* The lines of write_jsonl, turns first (output.py:89-98).
write_jsonl(turns, sessions) ==
    [format |-> "jsonl",
     lines |->
         [i \in 1..Len(turns) |-> JsonlRecord(turns[i], TURN_FIELDS, "turn")]
         \o [i \in 1..Len(sessions) |->
                JsonlRecord(sessions[i], SESSION_FIELDS, "session")]]

\* The caller serialises what the parser returned, with one of the writers.
WriteOutput ==
    /\ pc = "done"
    /\ pc' = "written"
    /\ \/ written' = Some(write_json(all_turns, all_sessions))
       \/ written' = Some(write_csv(all_turns, all_sessions))
       \/ written' = Some(write_jsonl(all_turns, all_sessions))
    /\ UNCHANGED <<parser, log, lines_read, cxVars, accVars, ccVars, cwVars,
                   outVars, call, disk, first_result, tsVars>>

NextOutput ==
    \/ CxReadLine
    \/ CxEndOfFile
    \/ CcReadLine
    \/ CcEndOfMain
    \/ CcNextSubagent
    \/ CcReadSubLine
    \/ CcEndOfSubagent
    \/ CcReturn
    \/ CwNextMeta
    \/ CwReadLine
    \/ CwEndOfAudit
    \/ CwReturn
    \/ WriteOutput

SpecOutput == Init /\ [][NextOutput]_vars

(***************************************************************************)
(* Properties                                                              *)
(***************************************************************************)
Done == pc = "done"

RECURSIVE Select(_, _)
Select(s, sid) ==
    IF s = <<>> THEN <<>>
    ELSE IF s[1].session_id = sid THEN <<s[1]>> \o Select(Tail(s), sid)
    ELSE Select(Tail(s), sid)

\* The turns of all_turns that belong to session s.
TurnsOf(s) == Select(all_turns, s.session_id)

HasField(r, f) == f \in DOMAIN r

\* Session field total equals the sum of turn field f over the session's turns.
TotalIsSum(s, total, f) ==
    /\ HasField(s, total)
    /\ \A i \in 1..Len(TurnsOf(s)) : HasField(TurnsOf(s)[i], f)
    /\ s[total] = SumOver(TurnsOf(s), f)

AdditiveTotalsAreSums(s) ==
    /\ TotalIsSum(s, "total_input_tokens", "input_tokens")
    /\ TotalIsSum(s, "total_output_tokens", "output_tokens")
    /\ TotalIsSum(s, "total_cache_read_tokens", "cache_read_tokens")
    /\ TotalIsSum(s, "total_cache_create_tokens", "cache_create_tokens")
    /\ s.total_tokens = s.total_input_tokens + s.total_output_tokens
                            + s.total_cache_read_tokens
                            + s.total_cache_create_tokens

\* C1: every emitted session's total_input, total_output, total_cache_read,
\* total_cache_create and total_reasoning_output tokens equal the sums of the
\* per-turn fields over the session's emitted turns, and total_tokens is the
\* sum of the four additive totals.
C1_SessionTotalsAreTurnSums ==
    Done => \A i \in 1..Len(all_sessions) :
                /\ AdditiveTotalsAreSums(all_sessions[i])
                /\ TotalIsSum(all_sessions[i], "total_reasoning_output_tokens",
                              "reasoning_output_tokens")

\* What holds of C1 in all three parsers: the four additive totals and
\* total_tokens.
AdditiveTotalsHold ==
    Done => \A i \in 1..Len(all_sessions) : AdditiveTotalsAreSums(all_sessions[i])

\* C2: every emitted turn has total_tokens = input + output + cache_read +
\* cache_create, with reasoning_output_tokens not added.
C2_TurnTotalIsSumOfFour ==
    \A i \in 1..Len(all_turns) :
        LET t == all_turns[i]
        IN  t.total_tokens = t.input_tokens + t.output_tokens
                                 + t.cache_read_tokens + t.cache_create_tokens

C2_Witness ==
    /\ Done
    /\ \E i \in 1..Len(all_turns) :
           /\ all_turns[i].source = "codex"
           /\ all_turns[i].reasoning_output_tokens > 0
           /\ all_turns[i].cache_read_tokens > 0

\* C3: every emitted turn has reasoning_output_tokens <= output_tokens.
C3_ReasoningWithinOutput ==
    \A i \in 1..Len(all_turns) :
        /\ HasField(all_turns[i], "reasoning_output_tokens")
        /\ all_turns[i].reasoning_output_tokens <= all_turns[i].output_tokens

TokenFields == {"input_tokens", "output_tokens", "cache_read_tokens",
                "cache_create_tokens", "reasoning_output_tokens",
                "total_tokens"}

\* C4: every token count of every emitted turn is a non-negative integer.
C4_TokenCountsNonNegative ==
    \A i \in 1..Len(all_turns) :
        \A f \in TokenFields :
            /\ HasField(all_turns[i], f)
            /\ all_turns[i][f] >= 0

(***************************************************************************)
(* The rollout file as read, for the cli-b claims.  These definitions look *)
(* only at log, the lines of the file, never at the parser's variables.    *)
(***************************************************************************)
IsStarted(ev) == ev.type = "event_msg" /\ ev.evt = "task_started"
IsComplete(ev) == ev.type = "event_msg" /\ ev.evt = "task_complete"
\* A token_count line that carries cumulative totals.
IsCheckpoint(ev) ==
    ev.type = "event_msg" /\ ev.evt = "token_count" /\ ev.total # None

Last(S) == CHOOSE x \in S : \A y \in S : y <= x

Checkpoints(l, n) == {j \in 1..n : IsCheckpoint(l[j])}

\* The cumulative totals in force after the first n lines: those of the last
\* checkpoint, all-zero before the first.
TotalsAfter(l, n) ==
    IF Checkpoints(l, n) = {} THEN zero_total
    ELSE l[Last(Checkpoints(l, n))].total[1]

Markers(l, n) == {j \in 1..n : IsStarted(l[j]) \/ IsComplete(l[j])}

\* Line n is a task_complete that closes a task: the nearest task marker
\* before it is a task_started.
ClosesTask(l, n) ==
    /\ IsComplete(l[n])
    /\ Markers(l, n - 1) # {}
    /\ IsStarted(l[Last(Markers(l, n - 1))])

StartOf(l, n) == Last(Markers(l, n - 1))

Diff(a, b) ==
    [input_tokens |-> a.input_tokens - b.input_tokens,
     cached_input_tokens |-> a.cached_input_tokens - b.cached_input_tokens,
     output_tokens |-> a.output_tokens - b.output_tokens,
     reasoning_output_tokens |->
         a.reasoning_output_tokens - b.reasoning_output_tokens]

\* (latest cumulative totals at the task_complete of line n) minus (the totals
\* in force at its task_started).
TaskDelta(l, n) == Diff(TotalsAfter(l, n), TotalsAfter(l, StartOf(l, n)))

\* The vendor deltas of the started/complete pairs among the first n lines, in
\* file order; with seen = TRUE only of the pairs whose task_complete comes
\* after at least one checkpoint.
RECURSIVE PairDeltas(_, _, _)
PairDeltas(l, n, seen) ==
    IF n = 0 THEN <<>>
    ELSE IF ClosesTask(l, n) /\ (seen => Checkpoints(l, n) # {})
         THEN Append(PairDeltas(l, n - 1, seen), TaskDelta(l, n))
         ELSE PairDeltas(l, n - 1, seen)

\* The turn carries the decomposition of vendor delta d.
TurnOfDelta(t, d) ==
    /\ t.input_tokens =
           (IF d.input_tokens - d.cached_input_tokens > 0
            THEN d.input_tokens - d.cached_input_tokens ELSE 0)
    /\ t.cache_read_tokens = d.cached_input_tokens
    /\ t.output_tokens = d.output_tokens
    /\ t.reasoning_output_tokens = d.reasoning_output_tokens
    /\ t.cache_create_tokens = 0

\* turns are, in order, the turns of the vendor deltas ds, numbered 1, 2, ...
TurnsOfDeltas(turns, ds) ==
    /\ Len(turns) = Len(ds)
    /\ \A k \in 1..Len(ds) :
           /\ TurnOfDelta(turns[k], ds[k])
           /\ turns[k].turn_number = k

HasPair(l) == \E i, j \in 1..Len(l) : i < j /\ IsStarted(l[i]) /\ IsComplete(l[j])

Grew(d) ==
    \/ d.input_tokens > 0
    \/ d.cached_input_tokens > 0
    \/ d.output_tokens > 0
    \/ d.reasoning_output_tokens > 0

\* The field-wise differences between each checkpoint among the first n lines
\* and the checkpoint before it (all-zero before the first), in file order:
\* with grew = FALSE of every checkpoint whose totals differ from the preceding
\* ones, with grew = TRUE only of those where some counter increased.
RECURSIVE CheckpointDeltas(_, _, _)
CheckpointDeltas(l, n, grew) ==
    IF n = 0 THEN <<>>
    ELSE LET d == Diff(TotalsAfter(l, n), TotalsAfter(l, n - 1))
         IN  IF IsCheckpoint(l[n]) /\ d # zero_total /\ (grew => Grew(d))
             THEN Append(CheckpointDeltas(l, n - 1, grew), d)
             ELSE CheckpointDeltas(l, n - 1, grew)

NoMarkers(l) == Markers(l, Len(l)) = {}

AllZero(l) == \A j \in Checkpoints(l, Len(l)) : l[j].total[1] = zero_total

NoTaskTurn(l) == PairDeltas(l, Len(l), TRUE) = <<>>

VendorDeltas(l) ==
    IF ~ NoTaskTurn(l) THEN PairDeltas(l, Len(l), TRUE)
    ELSE CheckpointDeltas(l, Len(l), TRUE)

\* C9: a cli-b turn computed from vendor delta (input, cached, output,
\* reasoning) has input_tokens = max(input - cached, 0), cache_read_tokens =
\* cached, output_tokens = output, reasoning_output_tokens = reasoning and
\* cache_create_tokens = 0; every cli-b session has
\* total_cache_create_tokens = 0.
C9_VendorDecomposition ==
    (parser = "codex" /\ Done) =>
        /\ TurnsOfDeltas(all_turns, VendorDeltas(log))
        /\ \A i \in 1..Len(all_sessions) :
               all_sessions[i].total_cache_create_tokens = 0

C9_Witness ==
    /\ parser = "codex" /\ Done
    /\ all_sessions # <<>>
    /\ \E k \in 1..Len(all_turns) :
           /\ VendorDeltas(log)[k].input_tokens > 0
           /\ VendorDeltas(log)[k].cached_input_tokens > 0
           /\ all_turns[k].cache_read_tokens > 0
    /\ \E k \in 1..Len(all_turns) :
           /\ VendorDeltas(log)[k].input_tokens
                  > VendorDeltas(log)[k].cached_input_tokens
           /\ all_turns[k].input_tokens > 0

UserMessages(l) ==
    {j \in 1..Len(l) : /\ l[j].shape = "object"
                       /\ l[j].type = "event_msg"
                       /\ l[j].evt = "user_message"}

\* C11: a cli-b session has turns_assistant = the number of turns emitted for
\* the file and turns_user = max(number of user_message events in the file,
\* number of emitted turns), hence turns_user >= turns_assistant.
C11_CodexTurnCounts ==
    (parser = "codex" /\ Done) =>
        \A i \in 1..Len(all_sessions) :
            LET s == all_sessions[i]
                n == Len(all_turns)
                u == Cardinality(UserMessages(log))
            IN  /\ s.turns_assistant = n
                /\ s.turns_user = (IF u >= n THEN u ELSE n)
                /\ s.turns_user >= s.turns_assistant

C11_Witness ==
    /\ parser = "codex" /\ Done
    /\ Len(all_sessions) = 1
    /\ Cardinality(UserMessages(log)) = 1
    /\ Len(all_turns) = 2
    /\ all_sessions[1].turns_user = 2

(***************************************************************************)
(* The transcripts of a cli-a session as read: log holds the lines of the  *)
(* main transcript, then for every subagent file its mark and its lines.   *)
(***************************************************************************)
\* An assistant record with a usage block.
IsUsageRecord(rec) ==
    rec.shape = "object" /\ rec.type = "assistant" /\ rec.usage # None

FileMarks(l, n) == {j \in 1..n : l[j].shape = "file"}

\* The file stem with a leading "agent-" removed.
StemId(stem) == IF stem # <<>> /\ Head(stem) = "agent-" THEN Tail(stem) ELSE stem

\* For every assistant record with usage among the first n lines, in file
\* order: whether it lies in a subagent file, and that file's agent id.
RECURSIVE ExpectedFlags(_, _)
ExpectedFlags(l, n) ==
    IF n = 0 THEN <<>>
    ELSE IF ~ IsUsageRecord(l[n]) THEN ExpectedFlags(l, n - 1)
    ELSE IF FileMarks(l, n) = {}
         THEN Append(ExpectedFlags(l, n - 1),
                     [is_subagent |-> FALSE, subagent_id |-> None])
         ELSE Append(ExpectedFlags(l, n - 1),
                     [is_subagent |-> TRUE,
                      subagent_id |-> Some(StemId(l[Last(FileMarks(l, n))].stem))])

\* C12: the turns of a cli-a session are numbered 1, 2, ..., m+s in emission
\* order; the m turns of the main transcript come first with is_subagent false
\* and subagent_id null, the s subagent turns follow with is_subagent true and
\* subagent_id the file stem without its leading "agent-"; the session has
\* subagent_turns = s and turns_assistant = m+s.
C12_SubagentTurnsContinueNumbering ==
    (parser = "claude_code" /\ Done) =>
        LET e == ExpectedFlags(log, Len(log))
            s == Cardinality({k \in 1..Len(e) : e[k].is_subagent})
        IN  /\ Len(all_turns) = Len(e)
            /\ \A k \in 1..Len(e) :
                   /\ all_turns[k].turn_number = k
                   /\ all_turns[k].is_subagent = e[k].is_subagent
                   /\ all_turns[k].subagent_id = e[k].subagent_id
            /\ \A k \in 1..(Len(e) - 1) :
                   e[k].is_subagent => e[k + 1].is_subagent
            /\ \A i \in 1..Len(all_sessions) :
                   /\ all_sessions[i].subagent_turns = s
                   /\ all_sessions[i].turns_assistant = Len(e)
            /\ Len(all_sessions) = (IF e = <<>> THEN 0 ELSE 1)

C12_Witness ==
    /\ parser = "claude_code" /\ Done
    /\ Len(all_turns) = 3
    /\ ~ all_turns[2].is_subagent
    /\ all_turns[3].is_subagent
    /\ all_turns[3].turn_number = 3
    /\ all_turns[3].subagent_id = Some(<<"a1">>)
    /\ \E j \in FileMarks(log, Len(log)) : log[j].stem = <<"agent-", "a1">>

\* A record the cli-a parser passes over: bookkeeping, or an assistant record
\* without a usage block.
IsPassedOver(rec) ==
    /\ rec.shape = "object"
    /\ \/ rec.type \in {"system", "file-history-snapshot"}
       \/ rec.type = "assistant" /\ rec.usage = None

\* C13: the cli-a parser emits a session for a transcript file if and only if
\* an assistant record with a usage block occurs in the main transcript or in
\* one of its subagent transcripts; an assistant record without usage, a
\* system record or a file-history-snapshot record creates no turn and changes
\* no turn counter and no token total.
C13_SessionIffUsageRecord ==
    /\ []((parser = "claude_code" /\ Done) =>
             /\ Len(all_sessions) <= 1
             /\ all_sessions # <<>> <=>
                    \E j \in 1..Len(log) : IsUsageRecord(log[j]))
    /\ [][(/\ parser = "claude_code"
           /\ Len(log') = Len(log) + 1
           /\ IsPassedOver(log'[Len(log')]))
              => UNCHANGED <<accVars, subagent_turns_count, outVars>>]_vars

C13_Witness ==
    /\ parser = "claude_code" /\ Done
    /\ Len(all_sessions) = 1
    /\ Len(all_turns) = 1
    /\ \E j \in 1..Len(log) : log[j].type = "file-history-snapshot"
    /\ \E j \in 1..Len(log) : log[j].type = "assistant" /\ IsPassedOver(log[j])

(***************************************************************************)
(* The sessions parsed from one desktop project directory, before sorting  *)
(* and skipping, are raw_sessions; every one has its own session id.       *)
(***************************************************************************)
\* Creation time of a parsed session; an absent createdAt counts as 0.
CreationTime(rs) == IF rs.created_at_ms = None THEN 0 ELSE rs.created_at_ms[1]

Parsed(sid) == CHOOSE i \in 1..Len(raw_sessions) : raw_sessions[i].session_id = sid

ReturnedIds == {all_sessions[i].session_id : i \in 1..Len(all_sessions)}

DroppedSessions ==
    {i \in 1..Len(raw_sessions) : raw_sessions[i].session_id \notin ReturnedIds}

\* The returned turns are exactly the turns of the returned sessions, session
\* by session in the order of the sessions.
RECURSIVE TurnsOfSessions(_)
TurnsOfSessions(ss) ==
    IF ss = <<>> THEN <<>>
    ELSE raw_sessions[Parsed(ss[1].session_id)].turns \o TurnsOfSessions(Tail(ss))

MetaMarks(l) == {j \in 1..Len(l) : l[j].shape = "meta"}

AuditedMarks(l) == {j \in MetaMarks(l) : l[j].meta.audit}

\* The lines of the audit log of the metadata file marked at j.
AuditLines(l, j) ==
    {i \in (j + 1)..Len(l) : \A m \in MetaMarks(l) : m <= j \/ m > i}

IsAssistantRecord(rec) == rec.shape = "object" /\ rec.type = "assistant"

SessionsOfId(ss, sid) == {i \in 1..Len(ss) : ss[i].session_id = sid}

ZeroTotals(s) ==
    /\ s.turns_assistant = 0
    /\ s.total_input_tokens = 0
    /\ s.total_output_tokens = 0
    /\ s.total_cache_read_tokens = 0
    /\ s.total_cache_create_tokens = 0
    /\ s.total_reasoning_output_tokens = 0
    /\ s.total_tokens = 0

IsGenuineUserRecord(rec) ==
    /\ rec.shape = "object"
    /\ rec.type = "user"
    /\ \/ rec.content.kind = "str"
       \/ /\ rec.content.kind = "list"
          /\ \A b \in 1..Len(rec.content.blocks) :
                 rec.content.blocks[b] # "tool_result"

GenuineIn(l, lines) == Cardinality({j \in lines : IsGenuineUserRecord(l[j])})

\* The lines of the main transcript: those before the first subagent file.
MainLines(l) == {j \in 1..Len(l) : FileMarks(l, j) = {}}

\* The lines of the audit log being read.
CurrentAuditLines(l) == AuditLines(l, Last(MetaMarks(l)))

\* C16 as stated: in desktop and cli-a parsing a user record increments
\* turns_user if and only if its content is a plain string or a list without
\* tool_result block, so turns_user is the number of genuine user records read.
C16_TurnsUserCountsGenuineRecords ==
    /\ (parser = "cowork" /\ pc = "cw_audit") =>
           turns_user = GenuineIn(log, CurrentAuditLines(log))
    /\ parser = "claude_code" => turns_user = GenuineIn(log, 1..Len(log))

\* C16 amended: a user record of a desktop audit log or of a cli-a main
\* transcript increments turns_user if and only if its content is a plain
\* string or a list without tool_result block; a user record of a cli-a
\* subagent transcript never increments it.  So turns_user is the number of
\* genuine user records of the audit log, or of the main transcript.
C16_TurnsUserCountsGenuineMainRecords ==
    /\ (parser = "cowork" /\ pc = "cw_audit") =>
           turns_user = GenuineIn(log, CurrentAuditLines(log))
    /\ parser = "claude_code" =>
           /\ turns_user = GenuineIn(log, MainLines(log))
           /\ \A i \in 1..Len(all_sessions) :
                  all_sessions[i].turns_user = GenuineIn(log, MainLines(log))

C16_Witness ==
    /\ parser = "claude_code" /\ pc = "cc_sub"
    /\ turns_user = 1
    /\ \E j \in MainLines(log) : IsGenuineUserRecord(log[j])
    /\ \E j \in MainLines(log) :
           /\ log[j].type = "user"
           /\ log[j].content.kind = "list"
           /\ ~ IsGenuineUserRecord(log[j])
    /\ \E j \in (1..Len(log)) \ MainLines(log) : IsGenuineUserRecord(log[j])

C18_NoExceptionEscapes == pc # "raised"

\* C19: model_family classifies a name containing "gpt" (and none of haiku,
\* sonnet, opus) as "gpt", so every turn of a cli-b session whose model is a
\* gpt-* string has model_family "gpt".
C19_GptTurnsHaveGptFamily ==
    \A i \in 1..Len(all_turns) :
        Contains(Lower(Spelling(all_turns[i].model)), <<"g", "p", "t">>) =>
            all_turns[i].model_family = "gpt"

\* The turn records and the session records of what was written.
WrittenTurns ==
    IF written[1].format = "jsonl"
    THEN SelectSeq(written[1].lines, LAMBDA r : r["_record_type"] = "turn")
    ELSE written[1].turns

WrittenSessions ==
    IF written[1].format = "jsonl"
    THEN SelectSeq(written[1].lines, LAMBDA r : r["_record_type"] = "session")
    ELSE written[1].sessions

Preserved(w, d, f) == f \in DOMAIN d => (f \in DOMAIN w /\ w[f] = d[f])

\* C20: serialising parser output with write_json, write_jsonl or write_csv
\* preserves for every turn record the fields is_subagent, subagent_id and
\* reasoning_output_tokens, and for every session record the fields
\* subagent_turns and total_reasoning_output_tokens, with the values the
\* parser produced.
C20_WritersPreserveSubagentAndReasoningFields ==
    written # None =>
        /\ Len(WrittenTurns) = Len(all_turns)
        /\ Len(WrittenSessions) = Len(all_sessions)
        /\ \A i \in 1..Len(all_turns) :
               \A f \in {"is_subagent", "subagent_id", "reasoning_output_tokens"} :
                   Preserved(WrittenTurns[i], all_turns[i], f)
        /\ \A i \in 1..Len(all_sessions) :
               \A f \in {"subagent_turns", "total_reasoning_output_tokens"} :
                   Preserved(WrittenSessions[i], all_sessions[i], f)

\* C21: every turn emitted by the cli-a parser, from the main transcript or a
\* subagent transcript, carries reasoning_output_tokens = 0, and every cli-a
\* session carries total_reasoning_output_tokens = 0, as the desktop parser's
\* turns and sessions do.
C21_TranscriptTurnsCarryZeroReasoning ==
    /\ \A i \in 1..Len(session_turns) :
           /\ HasField(session_turns[i], "reasoning_output_tokens")
           /\ session_turns[i].reasoning_output_tokens = 0
    /\ \A i \in 1..Len(all_turns) :
           /\ HasField(all_turns[i], "reasoning_output_tokens")
           /\ all_turns[i].reasoning_output_tokens = 0
    /\ \A i \in 1..Len(all_sessions) :
           /\ HasField(all_sessions[i], "total_reasoning_output_tokens")
           /\ all_sessions[i].total_reasoning_output_tokens = 0

\* C22: for every session emitted by any source, duration_min is either null or
\* strictly positive: a computed duration that is zero or negative after
\* rounding to one decimal is reported as null.
C22_DurationNullOrPositive ==
    \A i \in 1..Len(all_sessions) :
        \/ all_sessions[i].duration_min = None
        \/ all_sessions[i].duration_min[1] > 0

\* C23: within the output of one parser call no two session records share the
\* same session_id, whatever the input files are.
C23_SessionIdsDistinct ==
    \A i, j \in 1..Len(all_sessions) :
        i # j => all_sessions[i].session_id # all_sessions[j].session_id

\* No cumulative counter is smaller in a later checkpoint than in an earlier one.
CountersNeverDecrease(l) ==
    \A j, k \in Checkpoints(l, Len(l)) :
        j < k =>
            \A f \in {"input_tokens", "cached_input_tokens", "output_tokens",
                       "reasoning_output_tokens"} :
                l[j].total[1][f] <= l[k].total[1][f]

\* C24: for a cli-b file whose cumulative counters never decrease, the session
\* totals are exact under both turn-boundary protocols: total_output_tokens,
\* total_cache_read_tokens and total_reasoning_output_tokens equal the final
\* cumulative output_tokens, cached_input_tokens and reasoning_output_tokens.
C24_SessionTotalsAreFinalCumulative ==
    (parser = "codex" /\ Done /\ CountersNeverDecrease(log)) =>
        \A i \in 1..Len(all_sessions) :
            /\ all_sessions[i].total_output_tokens = latest_total[1].output_tokens
            /\ all_sessions[i].total_cache_read_tokens
                   = latest_total[1].cached_input_tokens
            /\ all_sessions[i].total_reasoning_output_tokens
                   = latest_total[1].reasoning_output_tokens

IsSkippedRecord(rec) == rec.shape \in {"blank", "not_json"}

\* C25: parsing a log with blank lines and lines failing JSON decoding at
\* arbitrary positions yields the same turns and the same session records as
\* parsing the log with those lines removed; such a line changes no
\* accumulator, and parsing continues with the next line.
C25_SkippedLinesChangeNothing ==
    /\ []((call = 2 /\ pc = "done") =>
             /\ all_turns = first_result[1].turns
             /\ all_sessions = first_result[1].sessions)
    /\ [][(Len(log') = Len(log) + 1 /\ IsSkippedRecord(log'[Len(log')])) =>
             UNCHANGED <<pc, cxVars, accVars, ccVars, cwVars, outVars, tsVars>>]_vars

C25_Witness ==
    /\ call = 2
    /\ pc = "done"
    /\ all_turns # <<>>
    /\ \E j \in 1..Len(first_result[1].log) :
           /\ j > 1
           /\ j < Len(first_result[1].log)
           /\ IsSkippedRecord(first_result[1].log[j])
    /\ \A j \in 1..Len(log) : ~ IsSkippedRecord(log[j])
    /\ all_turns = first_result[1].turns

\* The sessions parsed over all project directories: one for every metadata
\* file that has an audit log.  Those that are not returned were dropped.
DroppedMarks ==
    {j \in AuditedMarks(log) : log[j].meta.sessionId \notin ReturnedIds}

CreatedAtMark(j) ==
    IF log[j].meta.createdAt = None THEN 0 ELSE log[j].meta.createdAt[1]

\* C26: extract_cowork called with skip_first_n = N on a root directory that
\* contains several <org>/<project> directories drops exactly N sessions from
\* the combined result, and they are the N with the smallest creation time
\* over all projects.
C26_RootSkipDropsOldestOverall ==
    (parser = "cowork" /\ Done /\ ProjectMarks(log) # {}
        /\ Cardinality(AuditedMarks(log)) > skip_first_n) =>
        /\ Cardinality(DroppedMarks) = skip_first_n
        /\ \A d \in DroppedMarks :
               \A r \in AuditedMarks(log) \ DroppedMarks :
                   CreatedAtMark(d) <= CreatedAtMark(r)

\* C27: a cli-b task_complete event that has no task_started since the
\* previous task_complete (or since the start of the file) is suppressed: it
\* emits no turn and leaves turn_number, the emitted turns and the latest
\* cumulative totals unchanged, so the turns of the matched pairs are numbered
\* consecutively.
C27_UnmatchedCompleteIsSuppressed ==
    /\ [](\A i \in 1..Len(task_completed_turns) :
              task_completed_turns[i].turn_number = i)
    /\ [][(/\ Len(log') = Len(log) + 1
            /\ IsComplete(log'[Len(log')])
            /\ ~ ClosesTask(log', Len(log'))) =>
              UNCHANGED <<turn_number, task_completed_turns, latest_total>>]_vars

C27_Witness ==
    /\ Len(log) = 4
    /\ IsComplete(log[2])
    /\ ~ ClosesTask(log, 2)
    /\ ClosesTask(log, 4)
    /\ turn_number = 1
    /\ Len(task_completed_turns) = 1
    /\ task_completed_turns[1].turn_number = 1

\* The turn_context events of the file that name a model.
ContextLines(l) ==
    {j \in 1..Len(l) :
        l[j].shape = "object" /\ l[j].type = "turn_context" /\ l[j].model # ""}

ContextCount(l, m) == Cardinality({j \in ContextLines(l) : l[j].model = m})

\* The model strings that occur most often among the turn_context events.
MostFrequentModels(l) ==
    {l[j].model : j \in {i \in ContextLines(l) :
        \A k \in ContextLines(l) :
            ContextCount(l, l[k].model) <= ContextCount(l, l[i].model)}}

\* C28: a cli-b session's model is the model string that occurs most often
\* among the file's turn_context events (any of them when several tie).
C28_SessionModelIsMostFrequentContextModel ==
    (parser = "codex" /\ Done) =>
        \A i \in 1..Len(all_sessions) :
            IF ContextLines(log) = {} THEN all_sessions[i].model = ""
            ELSE all_sessions[i].model \in MostFrequentModels(log)

\* C29: every turn emitted from one cli-b rollout file carries the same
\* session_id and the same project as the session record emitted for that
\* file, wherever the session_meta records appear in the file.
C29_TurnsCarrySessionIdentity ==
    (parser = "codex" /\ Done) =>
        \A i \in 1..Len(all_turns) :
            \A j \in 1..Len(all_sessions) :
                /\ all_turns[i].session_id = all_sessions[j].session_id
                /\ all_turns[i].project = all_sessions[j].project

\* C30: the single-turn fallback branch of _parse_session_file is never
\* selected: whenever latest_total has a positive field, token_count_snapshots
\* is non-empty, so at end of file the protocol is the task-marker one when a
\* task_complete emitted a turn, else the counter-delta one when a snapshot
\* was recorded, else none.
C30_SingleTurnBranchNeverSelected ==
    parser = "codex" =>
        /\ (latest_total # None /\ \E k \in TotalKeys : latest_total[1][k] > 0)
               => token_count_snapshots # <<>>
        /\ protocol # "single"
        /\ Done =>
               protocol = IF has_task_events /\ task_completed_turns # <<>>
                          THEN "task"
                          ELSE IF token_count_snapshots # <<>> THEN "delta"
                          ELSE "none"

C30_Witness ==
    /\ parser = "codex" /\ Done
    /\ has_task_events /\ task_completed_turns = <<>>
    /\ latest_total # None /\ \E k \in TotalKeys : latest_total[1][k] > 0
    /\ protocol = "delta"
    /\ all_turns # <<>>

====
